---- MODULE Spec2Model ----
(***************************************************************************)
(* A model of isoparser: the sector-cached Source (source.py), the         *)
(* per-record SUSP walk and the directory child cache (record.py) and the  *)
(* path resolution of the ISO facade (iso.py).                             *)
(*                                                                         *)
(* Bytes are modelled at sector granularity: the working buffer and a      *)
(* fetched run are sequences of sector-sized chunks, and the chunk that    *)
(* holds the bytes of image sector s is the number s.  Byte lengths and    *)
(* byte offsets keep their real values.                                    *)
(***************************************************************************)
EXTENDS Integers, Sequences, FiniteSets, TLC

VARIABLES
    source,   \* the Source object
    image,    \* what the disc image holds (read-only)
    walk,     \* a running Record.susp_entries_unsafe generator
    facade,   \* the ISO object: root, path_table, path_cache, and the child
              \* caches of the directory records it holds
    resolved, \* the record each path resolved to the first time (history)
    call      \* the last operation called: its arguments and outcome

vars == <<source, image, walk, facade, resolved, call>>

(***************************************************************************)
(* Program constants and bounds                                            *)
(***************************************************************************)
SECTOR_LENGTH == 2048

\* need_start = None
NoSector == -1

\* largest start sector a seek is tried with
MaxStart == 3
\* largest number of sectors a seek asks for
MaxSeekSectors == 2
\* largest min_fetch a source is constructed with
MaxMinFetch == 3

Max(a, b) == IF a >= b THEN a ELSE b
Min(a, b) == IF a <= b THEN a ELSE b

\* F applied to the value of v, computed once (a LET name is a definition,
\* computed again wherever it is used)
Bind(v, F(_)) == CHOOSE y \in {F(x) : x \in {v}} : TRUE

\* Python's None, and a value that is not None
None == <<>>
Some(x) == <<x>>

(***************************************************************************)
(* source.py: the backend and Source.seek                                  *)
(***************************************************************************)
\* the bytes of image sector s (the backend's image is read-only)
Image(s) == s

\* _fetch(sector, count): count sectors of the image, in order
Fetch(sector, count) == [i \in 1..count |-> Image(sector + i - 1)]

\* Source.__init__
NewSource(cache_content, min_fetch) ==
    [_buff |-> [data |-> <<>>, size |-> 0, pos |-> 0],
     _len |-> 0,
     _sectors |-> <<>>,
     cache_content |-> cache_content,
     min_fetch |-> min_fetch,
     susp_starting_index |-> [kind |-> "None", n |-> 0],
     susp_extensions |-> <<>>,
     rockridge |-> FALSE,
     fetched |-> <<>>]

n_sectors_floor(length) == length \div SECTOR_LENGTH
\* n_sectors = 1 + (length - 1) // SECTOR_LENGTH
n_sectors(length) == 1 + ((length - 1) \div SECTOR_LENGTH)

do_caching_always(src, is_content) == TRUE
do_caching_never(src, is_content) == FALSE
\* do_caching = (not is_content or self.cache_content)
do_caching(src, is_content) == (~is_content) \/ src.cache_content

fetch_sectors_exact(src, length, is_content) == n_sectors(length)
\* fetch_sectors = max(self.min_fetch, n_sectors) if do_caching else n_sectors
fetch_sectors(src, length, is_content) ==
    IF do_caching(src, is_content)
    THEN Max(src.min_fetch, n_sectors(length))
    ELSE n_sectors(length)

\* the closure fetch_needed(need_count) of seek, on the loop state st;
\* each backend call is logged with the sectors of the run that were cached
\* when it was issued
fetch_needed(st, need_count, caching) ==
    LET data == Fetch(st.need_start, need_count)
        run  == st.need_start .. (st.need_start + need_count - 1)
    IN [st EXCEPT
          !.data = @ \o data,
          !._sectors = IF caching
                       THEN [s \in (DOMAIN @) \cup run |->
                               IF s \in run THEN data[s - st.need_start + 1] ELSE @[s]]
                       ELSE @,
          !.fetched = Append(@, [sector |-> st.need_start, count |-> need_count,
                                 cached |-> run \cap DOMAIN st._sectors])]

is_cached_never(st, sector) == FALSE
\* sector in self._sectors
is_cached(st, sector) == sector \in DOMAIN st._sectors

\* the for loop of seek over xrange(start_sector, start_sector + fetch_sectors)
RECURSIVE SeekLoop(_, _, _, _, _)
SeekLoop(st, sector, stop, need_end, caching) ==
    IF sector >= stop THEN st
    ELSE IF is_cached(st, sector)
    THEN LET a == IF st.need_start # NoSector
                  THEN [fetch_needed(st, sector - st.need_start, caching)
                          EXCEPT !.need_start = NoSector]
                  ELSE st
         IN IF sector >= need_end
            THEN a
            ELSE SeekLoop([a EXCEPT !.data = Append(@, a._sectors[sector])],
                          sector + 1, stop, need_end, caching)
    ELSE IF st.need_start = NoSector
    THEN SeekLoop([st EXCEPT !.need_start = sector], sector + 1, stop, need_end, caching)
    ELSE SeekLoop(st, sector + 1, stop, need_end, caching)

\* self._buff.seek(length); self._buff.truncate(): the chunks that hold the
\* first length bytes
Truncate(data, length) ==
    SubSeq(data, 1, IF n_sectors(length) <= Len(data) THEN n_sectors(length) ELSE Len(data))

\* Source.seek(start_sector, length, is_content)
Seek(src, start_sector, length, is_content) ==
    LET caching == do_caching(src, is_content)
        stop == start_sector + fetch_sectors(src, length, is_content)
        st0 == [data |-> <<>>, _sectors |-> src._sectors,
                need_start |-> NoSector, fetched |-> src.fetched]
        st1 == SeekLoop(st0, start_sector, stop, start_sector + n_sectors(length), caching)
        st2 == IF st1.need_start # NoSector
               THEN fetch_needed(st1, stop - st1.need_start, caching)
               ELSE st1
    IN [src EXCEPT
          !._buff = [data |-> Truncate(st2.data, length),
                     size |-> Min(length, Len(st2.data) * SECTOR_LENGTH),
                     pos |-> 0],
          !._len = length,
          !._sectors = st2._sectors,
          !.fetched = st2.fetched]

\* Source.cursor
cursor(src) == src._buff.pos

\* Source.__len__
SourceLen(src) == src._len - cursor(src)

(***************************************************************************)
(* SUSP entries on the disc and source.py: unpack_raw, unpack_susp         *)
(***************************************************************************)
\* rockridge.EXT_VERSIONS
EXT_VERSIONS == {<<"RRIP_1991A", 1>>, <<"IEEE_P1282", 1>>}

\* the signatures the base SUSP classes implement under any extension
BaseSignatures == {"SP", "CE", "ST", "ER"}

\* the _implements tables of rockridge.py: the (ext_id, ext_ver) under which
\* a signature has a typed class
Implementers(sig) ==
    IF sig = "RR" THEN {<<"RRIP_1991A", 1>>}
    ELSE IF sig \in {"PX", "PN", "SL", "NM", "TF"} THEN EXT_VERSIONS
    ELSE {}

\* image.areas maps the absolute byte position where a run of SUSP entries
\* starts to the entries, laid out one after the other
RECURSIVE SumLen(_, _)
SumLen(entries, k) == IF k = 0 THEN 0 ELSE entries[k].len + SumLen(entries, k - 1)

\* what four header bytes at a position with no entry decode to (zero filler)
ZeroEntry == [sig |-> "00", len |-> 0]

\* image.dirs maps the first sector of a directory extent to its entries,
\* laid out one after the other from byte 0 and followed by zero bytes.
\* An entry is [ident_len, raw_name, location, length, is_directory, su]:
\* su are the SUSP entries of its system-use area.
\* An item of su that is no SUSP entry (bytes the SP tells a reader to skip,
\* padding) has the signature "--".

\* bytes of a directory entry: 33 fixed bytes, the identifier, a pad byte
\* after an identifier of even length, the system-use area
RecLen(e) ==
    33 + e.ident_len + (IF e.ident_len % 2 = 0 THEN 1 ELSE 0) + SumLen(e.su, Len(e.su))

RECURSIVE DirOffset(_, _)
DirOffset(entries, k) == IF k = 0 THEN 0 ELSE RecLen(entries[k]) + DirOffset(entries, k - 1)

\* the bytes of a directory entry before its system-use area
SystemUseOffset(e) == 33 + e.ident_len + (IF e.ident_len % 2 = 0 THEN 1 ELSE 0)

\* the SUSP entry whose header starts at absolute byte position abs: in a
\* continuation area, or in the system-use area of a directory entry
EntryAt(img, abs) ==
    LET hits == UNION {{<<a, k>> : k \in {j \in 1..Len(img.areas[a]) :
                                               a + SumLen(img.areas[a], j - 1) = abs}} :
                       a \in DOMAIN img.areas}
        embedded == UNION {UNION {{<<d, j, k>> :
                                      k \in {i \in 1..Len(img.dirs[d][j].su) :
                                                d * SECTOR_LENGTH + DirOffset(img.dirs[d], j - 1)
                                                + SystemUseOffset(img.dirs[d][j])
                                                + SumLen(img.dirs[d][j].su, i - 1) = abs}} :
                                  j \in 1..Len(img.dirs[d])} :
                           d \in DOMAIN img.dirs}
    IN IF hits # {}
       THEN LET h == CHOOSE h \in hits : TRUE IN img.areas[h[1]][h[2]]
       ELSE IF embedded # {}
       THEN LET h == CHOOSE h \in embedded : TRUE IN img.dirs[h[1]][h[2]].su[h[3]]
       ELSE ZeroEntry

\* the absolute image position of byte c of the working window
WindowAbs(src, c) ==
    src._buff.data[(c \div SECTOR_LENGTH) + 1] * SECTOR_LENGTH + (c % SECTOR_LENGTH)

unpack_raw_unclamped(src, l) == [src EXCEPT !._buff.pos = @ + l]
\* Source.unpack_raw(l): the cursor after the read, and whether it under-runs
unpack_raw(src, l) == [src EXCEPT !._buff.pos = Min(@ + l, src._buff.size)]
unpack_raw_fails(src, l) == src._buff.pos + l > src._buff.size

\* the extension scope unpack_susp decodes under (possible_extension = 0)
ext_id_ver(src) ==
    IF 0 < Len(src.susp_extensions)
    THEN Some(<<src.susp_extensions[1].ext_id, src.susp_extensions[1].ext_ver>>)
    ELSE None

\* susp.SUSP_Entry.unpack: the class an entry is constructed as
EntryClass(src, raw) ==
    IF raw.sig \in BaseSignatures THEN raw.sig
    ELSE IF ext_id_ver(src) # None /\ ext_id_ver(src)[1] \in Implementers(raw.sig)
    THEN raw.sig
    ELSE "UnknownEntry"

\* Source.unpack_susp(maxlen) on a well-formed entry (declared length >= 4,
\* payload decoding consumes exactly the declared length); `at` remembers
\* where on the disc the entry was read
unpack_susp(src, img, maxlen) ==
    IF maxlen < 4 THEN [entry |-> None, src |-> src]
    ELSE LET start_cursor == cursor(src)
             at == WindowAbs(src, start_cursor)
             raw == EntryAt(img, at)
         IN IF maxlen < raw.len
            THEN [entry |-> None, src |-> src]
            ELSE [entry |-> Some([raw |-> raw, cls |-> EntryClass(src, raw), at |-> at]),
                  src |-> [src EXCEPT !._buff.pos = start_cursor + raw.len]]

(***************************************************************************)
(* record.py: Record.susp_entries_unsafe                                   *)
(***************************************************************************)
\* the generator's locals when it is created
NewWalk(embedded) ==
    [active |-> TRUE,
     embedded |-> embedded,
     embedded_iter |-> Some(1),
     target |-> None,
     ce_entry |-> None,
     visit |-> 0,
     yielded |-> <<>>]

\* Python truth of `target`: neither None nor 0
TargetTrue(w) == w.target # None /\ w.target[1] # 0

\* while embedded_iter or target or ce_entry
LoopCond(w) == w.embedded_iter # None \/ TargetTrue(w) \/ w.ce_entry # None

AfterYield_keeps_target(w, entry) ==
    IF entry.cls = "ST" THEN [w EXCEPT !.embedded_iter = None]
    ELSE IF entry.cls = "CE" THEN [w EXCEPT !.ce_entry = Some(entry)]
    ELSE w
\* what follows the yield: ST ends the current area, CE becomes pending
AfterYield(w, entry) ==
    IF entry.cls = "ST" THEN [w EXCEPT !.embedded_iter = None, !.target = None]
    ELSE IF entry.cls = "CE" THEN [w EXCEPT !.ce_entry = Some(entry)]
    ELSE w

\* yield entry, then the statements after the yield
Yield(w, entry) ==
    AfterYield([w EXCEPT !.yielded = Append(@, [entry |-> entry, visit |-> w.visit])], entry)

FollowCE_no_skip(w, src) ==
    LET ce == w.ce_entry[1].raw
        s1 == Seek(src, ce.location, ce.offset + ce.length, FALSE)
    IN [w |-> [w EXCEPT !.target = Some(cursor(s1) + ce.length),
                        !.ce_entry = None, !.visit = @ + 1],
        src |-> s1]
\* the branch `elif ce_entry`: seek the continuation area and skip to its start
FollowCE(w, src) ==
    LET ce == w.ce_entry[1].raw
        s1 == Seek(src, ce.location, ce.offset + ce.length, FALSE)
        s2 == unpack_raw(s1, ce.offset)
    IN [w |-> [w EXCEPT !.target = Some(cursor(s2) + ce.length),
                        !.ce_entry = None, !.visit = @ + 1],
        src |-> s2]

\* one iteration of the while loop
WalkStep(w, src, img) ==
    IF w.embedded_iter # None
    THEN LET i == w.embedded_iter[1]
         IN IF i > Len(w.embedded)
            THEN [w |-> [w EXCEPT !.embedded_iter = None], src |-> src]
            ELSE [w |-> Yield([w EXCEPT !.embedded_iter = Some(i + 1)], w.embedded[i]),
                  src |-> src]
    ELSE IF TargetTrue(w)
    THEN LET r == unpack_susp(src, img, w.target[1] - cursor(src))
         IN IF r.entry = None
            THEN [w |-> [w EXCEPT !.target = None], src |-> r.src]
            ELSE [w |-> Yield(w, r.entry[1]), src |-> r.src]
    ELSE FollowCE(w, src)

(***************************************************************************)
(* Directory records on the disc; source.py: unpack_record,                *)
(* unpack_boundary; record.py: Record.__init__, Record.name                *)
(***************************************************************************)
\* the directory entries whose length byte is at absolute byte position abs
DirHits(img, abs) ==
    UNION {{<<d, k>> : k \in {j \in 1..Len(img.dirs[d]) :
                                 d * SECTOR_LENGTH + DirOffset(img.dirs[d], j - 1) = abs}} :
           d \in DOMAIN img.dirs}

\* SP entries shorter than this declare no skip for the record that carries
\* them (Record.__init__: try_susp.len_skp > 7)
SP_LENGTH == 7

\* Record.__init__, "while True": entry after entry up to the target or the
\* first ST
RECURSIVE EmbeddedLoop(_, _, _, _)
EmbeddedLoop(src, img, target, susp_entries) ==
    Bind(unpack_susp(src, img, target - cursor(src)), LAMBDA r :
        IF r.entry = None THEN [susp_entries |-> susp_entries, src |-> r.src]
        ELSE IF r.entry[1].cls = "ST"
        THEN [susp_entries |-> Append(susp_entries, r.entry[1]), src |-> r.src]
        ELSE EmbeddedLoop(r.src, img, target, Append(susp_entries, r.entry[1])))

\* Record.__init__, "if susp_starting_index is None": the first entry is
\* tried, kept if it is an SP, and the SP may declare a skip
TrySP(src, img, target, susp_starting_index) ==
    IF susp_starting_index.kind # "None"
    THEN [susp_entries |-> <<>>, src |-> src, susp_starting_index |-> susp_starting_index]
    ELSE Bind(unpack_susp(src, img, target - cursor(src)), LAMBDA r :
            IF r.entry # None /\ r.entry[1].cls = "SP"
            THEN [susp_entries |-> <<r.entry[1]>>, src |-> r.src,
                  susp_starting_index |->
                     IF r.entry[1].raw.len_skp > SP_LENGTH
                     THEN [kind |-> "Skip", n |-> r.entry[1].raw.len_skp - SP_LENGTH]
                     ELSE susp_starting_index]
            ELSE [susp_entries |-> <<>>, src |-> r.src,
                  susp_starting_index |-> susp_starting_index])

\* the loop entered without the skip
SystemUse_no_skip(src, img, target, t) ==
    IF t.susp_starting_index.kind = "False"
    THEN [susp_entries |-> t.susp_entries, src |-> t.src, exc |-> None]
    ELSE Bind(EmbeddedLoop(t.src, img, target, t.susp_entries),
              LAMBDA l : [susp_entries |-> l.susp_entries, src |-> l.src, exc |-> None])

\* Record.__init__, "if susp_starting_index is not False": the skip, then
\* the loop; exc is the exception a read raises
SystemUse(src, img, target, t) ==
    IF t.susp_starting_index.kind = "False"
    THEN [susp_entries |-> t.susp_entries, src |-> t.src, exc |-> None]
    ELSE IF t.susp_starting_index.kind = "Skip" /\ t.susp_starting_index.n # 0
            /\ unpack_raw_fails(t.src, t.susp_starting_index.n)
    THEN [susp_entries |-> t.susp_entries,
          src |-> unpack_raw(t.src, t.susp_starting_index.n), exc |-> Some("SourceError")]
    ELSE Bind(EmbeddedLoop(IF t.susp_starting_index.kind = "Skip"
                           THEN unpack_raw(t.src, t.susp_starting_index.n) ELSE t.src,
                           img, target, t.susp_entries),
              LAMBDA l : [susp_entries |-> l.susp_entries, src |-> l.src, exc |-> None])

\* Record.__init__ on the entry e whose first byte after the length byte is
\* at the cursor: the record object, or the exception raised; id names the
\* object (records are compared by identity where the code does)
RecordInit(src, img, e, id) ==
    LET target == cursor(src) + RecLen(e) - 1
    IN IF unpack_raw_fails(src, SystemUseOffset(e) - 1)
       THEN [outcome |-> "SourceError", record |-> None,
             src |-> unpack_raw(src, SystemUseOffset(e) - 1)]
       ELSE Bind(TrySP(unpack_raw(src, SystemUseOffset(e) - 1), img, target,
                       src.susp_starting_index),
                 LAMBDA t :
            Bind(SystemUse(t.src, img, target, t), LAMBDA u :
                IF u.exc # None
                THEN [outcome |-> u.exc[1], record |-> None, src |-> u.src]
                ELSE IF ~(cursor(u.src) <= target)
                THEN [outcome |-> "AssertionError", record |-> None, src |-> u.src]
                ELSE IF unpack_raw_fails(u.src, target - cursor(u.src))
                THEN [outcome |-> "SourceError", record |-> None,
                      src |-> unpack_raw(u.src, target - cursor(u.src))]
                ELSE [outcome |-> "ok",
                      record |-> Some([id |-> id,
                                       is_copy |-> FALSE,
                                       location |-> e.location,
                                       length |-> e.length,
                                       is_directory |-> e.is_directory,
                                       raw_name |-> e.raw_name,
                                       embedded_susp_entries |-> u.susp_entries]),
                      src |-> unpack_raw(u.src, target - cursor(u.src))]))

\* Source.unpack_record(): None at a zero length byte (the cursor is rewound),
\* else the record, with the cursor moved past the entry, or the exception
\* Record.__init__ or a read raises
unpack_record(src, img, parent) ==
    LET start_cursor == cursor(src)
        hits == DirHits(img, WindowAbs(src, start_cursor))
    IN IF unpack_raw_fails(src, 1)
       THEN [outcome |-> "SourceError", record |-> None, src |-> src]
       ELSE IF hits = {}
       THEN [outcome |-> "ok", record |-> None, src |-> src]
       ELSE LET h == CHOOSE h \in hits : TRUE
            IN RecordInit(unpack_raw(src, 1), img, img.dirs[h[1]][h[2]],
                          Append(parent, start_cursor))

\* Source.unpack_boundary()
unpack_boundary(src) == unpack_raw(src, SECTOR_LENGTH - (cursor(src) % SECTOR_LENGTH))
unpack_boundary_fails(src) ==
    unpack_raw_fails(src, SECTOR_LENGTH - (cursor(src) % SECTOR_LENGTH))

\* Source.save_cursor / restore_cursor: the pair (_buff, _len).  The buffer is
\* saved by reference; between the two calls find_child moves the cursor only
\* through a seek, which installs a new buffer and leaves the saved one as
\* it was
\* a restore that leaves the source as the name read left it
restore_cursor_none(src, cursor_def) == src

\* a restore of the buffer alone
restore_cursor_buff_only(src, cursor_def) == [src EXCEPT !._buff = cursor_def._buff]

save_cursor(src) == [_buff |-> src._buff, _len |-> src._len]
restore_cursor(src, cursor_def) ==
    [src EXCEPT !._buff = cursor_def._buff, !._len = cursor_def._len]

\* NM.CONTINUE
NM_CONTINUE == 1

\* entry.flags & NM.CONTINUE == 0
NoContinue(flags) == ((flags \div NM_CONTINUE) % 2) = 0

\* Record.name: the loop over susp_entries_unsafe, pulled until the first NM
\* without CONTINUE or until the generator ends; returns the name and the
\* source as the walk leaves it
RECURSIVE NameLoop(_, _, _, _, _)
NameLoop(w, src, img, name, fuel) ==
    IF ~LoopCond(w) \/ fuel = 0 THEN [name |-> name, src |-> src]
    ELSE Bind(WalkStep(w, src, img), LAMBDA r :
            IF Len(r.w.yielded) = Len(w.yielded)
            THEN NameLoop(r.w, r.src, img, name, fuel - 1)
            ELSE LET entry == r.w.yielded[Len(r.w.yielded)].entry
                 IN IF entry.cls # "NM"
                    THEN NameLoop(r.w, r.src, img, name, fuel - 1)
                    ELSE IF NoContinue(entry.raw.flags)
                    THEN [name |-> name \o entry.raw.name, src |-> r.src]
                    ELSE NameLoop(r.w, r.src, img, name \o entry.raw.name, fuel - 1))

\* steps after which a name walk is cut (the images hold no cyclic CE chain)
MaxNameSteps == 12

RecordName(rec, src, img) ==
    Bind(NameLoop(NewWalk(rec.embedded_susp_entries), src, img, "", MaxNameSteps), LAMBDA r :
        [name |-> IF r.name = "" THEN rec.raw_name ELSE r.name, src |-> r.src])

(***************************************************************************)
(* record.py: _children_unsafe and find_child; the path table;             *)
(* iso.py: ISO.__init__ and ISO.record                                     *)
(***************************************************************************)
\* a record object's _child_cache and _last_cached_child as __init__ sets them
NewObj == [_child_cache |-> <<>>, _last_cached_child |-> [kind |-> "None", n |-> 0]]

\* objs holds the caches of the directory record objects that have any
Obj(objs, id) == IF id \in DOMAIN objs THEN objs[id] ELSE NewObj

\* an outcome of a call: a returned record or the exception raised
Returned(rec, src, objs) == [outcome |-> "ok", record |-> Some(rec), src |-> src, objs |-> objs]
Raised(exc, src, objs) == [outcome |-> exc, record |-> None, src |-> src, objs |-> objs]

\* copy.copy(child): another object with the same attributes
Copy(rec) == [rec EXCEPT !.is_copy = TRUE]

\* the start of the generator _children_unsafe(skip_current_parent, start_offset)
ChildrenStart(src, img, rec, skip_current_parent, start_offset) ==
    Bind(Seek(src, rec.location, rec.length, FALSE), LAMBDA s1 :
        LET s2 == [s1 EXCEPT !._buff.pos = start_offset]
        IN IF skip_current_parent
           THEN Bind(unpack_record(s2, img, rec.id).src, LAMBDA s3 :
                    unpack_record(s3, img, rec.id).src)
           ELSE s2)

\* raise KeyError("Child %s not found in record %s" % (child_name, repr(self))):
\* child_name is a local of the for loop, unbound when the loop body never ran
RaiseNotFound(src, img, objs, rec, child_name) ==
    IF child_name = None
    THEN Raised("UnboundLocalError", src, objs)
    ELSE Raised("KeyError", RecordName(rec, src, img).src, objs)

\* self._child_cache[child_name] = child
CacheChild(cache, child_name, child) == (child_name :> child) @@ cache

\* the for loop of find_child over the children generator
RECURSIVE ScanChildren(_, _, _, _, _, _)
ScanChildren(src, img, objs, rec, name, child_name) ==
    IF ~(SourceLen(src) > 0)
    THEN RaiseNotFound(src, img,
                       (rec.id :> [Obj(objs, rec.id) EXCEPT
                                     !._last_cached_child = [kind |-> "False", n |-> 0]]) @@ objs,
                       rec, child_name)
    ELSE Bind(unpack_record(src, img, rec.id), LAMBDA r :
        IF r.outcome # "ok" THEN Raised(r.outcome, r.src, objs)
        ELSE IF r.record = None
        THEN IF unpack_boundary_fails(r.src)
             THEN Raised("SourceError", unpack_boundary(r.src), objs)
             ELSE ScanChildren(unpack_boundary(r.src), img, objs, rec, name, child_name)
        ELSE Bind(RecordName(r.record[1], r.src, img), LAMBDA nm :
            LET child == r.record[1]
                saved_cursor == save_cursor(r.src)
                o == Obj(objs, rec.id)
            IN Bind([src |-> restore_cursor(nm.src, saved_cursor),
                     objs |-> (rec.id :>
                                 [_child_cache |-> CacheChild(o._child_cache, nm.name, child),
                                  _last_cached_child |->
                                      [kind |-> "Offset",
                                       n |-> cursor(restore_cursor(nm.src, saved_cursor))]])
                              @@ objs],
                    LAMBDA n :
                        IF nm.name = name
                        THEN Returned(IF child.is_directory THEN child ELSE Copy(child),
                                      n.src, n.objs)
                        ELSE ScanChildren(n.src, img, n.objs, rec, name, Some(nm.name)))))

\* Record.find_child(name)
find_child(src, img, objs, rec, name) ==
    LET o == Obj(objs, rec.id)
    IN IF name \in DOMAIN o._child_cache
       THEN Returned(o._child_cache[name], src, objs)
       ELSE IF o._last_cached_child.kind # "False"
       THEN IF ~rec.is_directory
            THEN Raised("AssertionError", src, objs)
            ELSE Bind(IF o._last_cached_child.kind = "Offset" /\ o._last_cached_child.n # 0
                      THEN ChildrenStart(src, img, rec, FALSE, o._last_cached_child.n)
                      ELSE ChildrenStart(src, img, rec, TRUE, 0),
                      LAMBDA children : ScanChildren(children, img, objs, rec, name, None))
       ELSE RaiseNotFound(src, img, objs, rec, None)

\* root.find_child(c1).find_child(c2)...: a chain of find_child calls
RECURSIVE FindChain(_, _, _, _, _)
FindChain(src, img, objs, rec, names) ==
    IF names = <<>> THEN Returned(rec, src, objs)
    ELSE Bind(find_child(src, img, objs, rec, Head(names)), LAMBDA r :
            IF r.outcome # "ok" THEN r
            ELSE FindChain(r.src, img, r.objs, r.record[1], Tail(names)))

\* PathTable.record(*path): the directory's own first entry, read at the
\* location the table gives; KeyError for a path that is no directory
PathTableRecord(src, img, table, path) ==
    IF path \notin DOMAIN table
    THEN [record |-> None, src |-> src]
    ELSE Bind(Seek(src, table[path], SECTOR_LENGTH, FALSE), LAMBDA s1 :
            unpack_record(s1, img, <<0, table[path]>>))

\* str.upper() on the names of the model
Upper(part) ==
    CASE part = "a" -> "A" [] part = "e" -> "E" [] part = "f" -> "F"
      [] part = "g" -> "G" [] part = "x" -> "X" [] OTHER -> part

\* ISO.record: path = list(path) or the upper-cased parts
Normalize(src, path) ==
    IF src.rockridge THEN path ELSE [i \in DOMAIN path |-> Upper(path[i])]

\* ISO.record: "Resolve as much of the path as possible via the path table
\* or path cache"; returns the record found (or None), the parts left, the
\* prefix resolved and the source
RECURSIVE ResolvePrefix(_, _, _, _, _)
ResolvePrefix(src, img, iso, path, subpath) ==
    IF path = <<>>
    THEN [record |-> None, path |-> path, subpath |-> subpath, src |-> src]
    ELSE LET cached == IF path \in DOMAIN iso.path_cache
                       THEN Some(iso.path_cache[path]) ELSE None
         IN Bind(IF cached = None /\ ~src.rockridge
                 THEN PathTableRecord(src, img, iso.path_table, path)
                 ELSE [record |-> cached, src |-> src],
                 LAMBDA looked :
                    IF looked.record # None
                    THEN [record |-> looked.record, path |-> path, subpath |-> subpath,
                          src |-> looked.src]
                    ELSE ResolvePrefix(looked.src, img, iso,
                                       SubSeq(path, 1, Len(path) - 1),
                                       <<path[Len(path)]>> \o subpath))

\* ISO.record: "Resolve the remainder of the path by walking record children"
RECURSIVE WalkChildren(_, _, _, _, _, _)
WalkChildren(src, img, iso, record, path, subpath) ==
    IF subpath = <<>>
    THEN [outcome |-> "ok", record |-> Some(record), src |-> src, iso |-> iso]
    ELSE Bind(find_child(src, img, iso.objs, record, Head(subpath)), LAMBDA r :
            LET path2 == Append(path, Head(subpath))
            IN IF r.outcome # "ok"
               THEN [outcome |-> r.outcome, record |-> None, src |-> r.src,
                     iso |-> [iso EXCEPT !.objs = r.objs]]
               ELSE WalkChildren(r.src, img,
                       [iso EXCEPT
                          !.objs = r.objs,
                          !.path_cache = IF r.record[1].is_directory
                                         THEN (path2 :> r.record[1]) @@ @ ELSE @],
                       r.record[1], path2, Tail(subpath)))

\* ISO.record(*path)
ISORecord(src, img, iso, path) ==
    Bind(ResolvePrefix(src, img, iso, Normalize(src, path), <<>>), LAMBDA p :
        WalkChildren(p.src, img, iso, IF p.record = None THEN iso.root ELSE p.record[1],
                     p.path, p.subpath))

\* Record.susp_entries: list(self.susp_entries_unsafe)
RECURSIVE WalkAll(_, _, _, _)
WalkAll(w, src, img, fuel) ==
    IF ~LoopCond(w) \/ fuel = 0 THEN [yielded |-> w.yielded, src |-> src]
    ELSE Bind(WalkStep(w, src, img), LAMBDA r : WalkAll(r.w, r.src, img, fuel - 1))

\* ISO.__init__: the volume descriptors at sectors 16 (primary) and 17
\* (terminator), the path table, the root record and the SUSP / Rock Ridge
\* detection on the root's current-directory record
\* the root record of the primary volume descriptor
RootRecord(img) ==
    [id |-> <<>>, is_copy |-> FALSE,
     location |-> img.root.location, length |-> img.root.length,
     is_directory |-> TRUE, raw_name |-> "", embedded_susp_entries |-> <<>>]

\* the loop over the volume descriptors, then the path table
ReadDescriptors(src0, img) ==
    Bind(Seek(src0, 16, SECTOR_LENGTH, FALSE), LAMBDA s1 :
    Bind(Seek(s1, 17, SECTOR_LENGTH, FALSE), LAMBDA s2 :
        Seek(s2, img.path_table_l_loc, img.path_table_size, FALSE)))

\* Record.current_directory of the root
CurrentDirectory(src, img, rec) ==
    Bind(Seek(src, rec.location, rec.length, FALSE), LAMBDA s1 :
        unpack_record(s1, img, <<>>))

\* "Check to see if SUSP is enabled"
DetectSUSP(src, img, root_record) ==
    LET emb == root_record.embedded_susp_entries
    IN IF emb # <<>> /\ emb[1].cls = "SP"
       THEN Bind(WalkAll(NewWalk(emb),
                         [src EXCEPT !.susp_starting_index =
                                        [kind |-> "Skip", n |-> emb[1].raw.len_skp]],
                         img, MaxNameSteps),
                 LAMBDA all :
                    LET ers == SelectSeq(all.yielded, LAMBDA y : y.entry.cls = "ER")
                        exts == [i \in DOMAIN ers |-> ers[i].entry.raw]
                    IN [all.src EXCEPT
                          !.susp_extensions = exts,
                          !.rockridge = \E i \in DOMAIN exts :
                                           <<exts[i].ext_id, exts[i].ext_ver>> \in EXT_VERSIONS])
       ELSE [src EXCEPT !.susp_starting_index = [kind |-> "False", n |-> 0]]

ISOInit(src0, img) ==
    Bind(ReadDescriptors(src0, img), LAMBDA s3 :
    Bind(CurrentDirectory(s3, img, RootRecord(img)), LAMBDA cur :
        [src |-> DetectSUSP(cur.src, img, cur.record[1]),
         facade |-> [active |-> TRUE, root |-> RootRecord(img), path_table |-> img.path_table,
                     path_cache |-> <<>>, objs |-> <<>>]]))

(***************************************************************************)
(* The seek specification: a source, any sequence of seeks                 *)
(***************************************************************************)
SeekLengths ==
    {0} \cup {k * SECTOR_LENGTH + d : k \in 0..(MaxSeekSectors - 1), d \in {1, SECTOR_LENGTH}}

NoCall == [op |-> "none"]

NoImage == [areas |-> <<>>, dirs |-> <<>>]
NoWalk == [active |-> FALSE]
NoFacade == [active |-> FALSE]

InitSeek ==
    /\ \E cc \in BOOLEAN, mf \in 0..MaxMinFetch : source = NewSource(cc, mf)
    /\ image = NoImage
    /\ walk = NoWalk
    /\ facade = NoFacade
    /\ resolved = <<>>
    /\ call = NoCall

DoSeek ==
    \E start \in 0..MaxStart, length \in SeekLengths, is_content \in BOOLEAN :
        /\ source' = Seek([source EXCEPT !.fetched = <<>>], start, length, is_content)
        /\ call' = [op |-> "seek", start_sector |-> start, length |-> length,
                    is_content |-> is_content, before |-> DOMAIN source._sectors]
        /\ UNCHANGED <<image, walk, facade, resolved>>

NextSeek == DoSeek

SpecSeek == InitSeek /\ [][NextSeek]_vars

\* ceil(length / 2048), written without the code's expression
CeilSectors(length) == (length + SECTOR_LENGTH - 1) \div SECTOR_LENGTH

\* the sectors a seek needs, and the sectors a caching seek may prefetch
NeededRange(c) == c.start_sector .. (c.start_sector + CeilSectors(c.length) - 1)
PrefetchRange(c) ==
    c.start_sector .. (c.start_sector + Max(source.min_fetch, CeilSectors(c.length)) - 1)
CachingCall(c) == c.op = "seek" /\ ((~c.is_content) \/ source.cache_content)

(* C7: across any sequence of seeks the backend is never asked for a sector
   that is in the sector cache when the call is issued, and every sector
   that is in the cache stays in it with the same bytes. *)
C7_NoRefetch ==
    [][ /\ \A i \in DOMAIN source'.fetched : source'.fetched[i].cached = {}
        /\ \A s \in DOMAIN source._sectors :
              s \in DOMAIN source'._sectors /\ source'._sectors[s] = source._sectors[s] ]_vars

\* a seek that found part of its range cached and still had to fetch
C7_Witness ==
    /\ call.op = "seek"
    /\ call.before \cap NeededRange(call) # {}
    /\ Len(source.fetched) > 0

(* C8: after seek(start_sector, length, is_content) the working window is
   the first length bytes of the image from byte start_sector*2048 (the
   needed sectors in ascending order, none missing, duplicated or
   reordered), the cursor is 0 and len(source) is length. *)
C8_WindowIsImage ==
    call.op = "seek" =>
        /\ source._buff.data =
              [i \in 1..CeilSectors(call.length) |-> Image(call.start_sector + i - 1)]
        /\ cursor(source) = 0
        /\ SourceLen(source) = call.length

\* a window of two sectors put together from a cached sector and a fetched one
C8_Witness ==
    /\ call.op = "seek"
    /\ CeilSectors(call.length) = 2
    /\ Cardinality(call.before \cap NeededRange(call)) = 1
    /\ Len(source.fetched) > 0

(* C9: a seek with is_content = true on a source whose cache_content is
   false leaves the sector cache unchanged and fetches only sectors among
   the ceil(length / 2048) sectors it needs. *)
C9_ContentNotCached ==
    (call.op = "seek" /\ call.is_content /\ ~source.cache_content) =>
        /\ DOMAIN source._sectors = call.before
        /\ \A i \in DOMAIN source.fetched :
              (source.fetched[i].sector .. (source.fetched[i].sector + source.fetched[i].count - 1))
                  \subseteq NeededRange(call)

\* a content seek that fetched, on a source that holds cached sectors and
\* would prefetch on a caching seek
C9_Witness ==
    /\ call.op = "seek" /\ call.is_content /\ ~source.cache_content
    /\ Len(source.fetched) > 0
    /\ call.before # {}
    /\ source.min_fetch > CeilSectors(call.length)

(* C10 as stated: after a caching seek every sector of
   [start_sector, start_sector + max(min_fetch, ceil(length / 2048))) is in
   the sector cache, whatever was cached before. *)
C10_AllPrefetched ==
    CachingCall(call) => PrefetchRange(call) \subseteq DOMAIN source._sectors

\* the prefetch sectors a caching seek reaches: those before the first
\* sector past the needed ones that was cached before the seek
Reached(c) ==
    {s \in PrefetchRange(c) :
        \A t \in c.before : ~(t \notin NeededRange(c) /\ t >= c.start_sector /\ t < s)}

(* C10 amended: after a caching seek every needed sector is in the sector
   cache, and so is every prefetch sector up to the first sector past the
   needed ones that was already cached before the seek. *)
C10_PrefetchedUntilCached ==
    CachingCall(call) =>
        /\ NeededRange(call) \subseteq DOMAIN source._sectors
        /\ Reached(call) \subseteq DOMAIN source._sectors

\* a caching seek whose prefetch stopped at a cached sector, leaving a
\* later sector of the prefetch range out of the cache
C10_Witness ==
    /\ CachingCall(call)
    /\ \E t \in call.before \cap PrefetchRange(call) : t \notin NeededRange(call)
    /\ \E s \in PrefetchRange(call) : s \notin DOMAIN source._sectors

(***************************************************************************)
(* The walk specification: one record, its SUSP walk pulled to the end     *)
(***************************************************************************)
\* most SUSP entries a walk image holds: those embedded in the record plus
\* those written in the two continuation areas
MaxEntries == 4
\* entries after which a walk is no longer pulled (CE chains may be cyclic)
MaxYield == 6
\* Source(min_fetch=16), the default
DefaultMinFetch == 16

SeqsUpTo(S, n) == UNION {[1..k -> S] : k \in 0..n}

\* the entries the walk images are built from: PX (36 bytes), ST (4 bytes)
\* and CE (28 bytes) pointing at the first or the second continuation area
SymKinds == {"PX", "ST", "CE1", "CE2"}
SymLen(k) == IF k = "ST" THEN 4 ELSE IF k = "PX" THEN 36 ELSE 28
RECURSIVE SymTotal(_, _)
SymTotal(syms, k) == IF k = 0 THEN 0 ELSE SymLen(syms[k]) + SymTotal(syms, k - 1)

\* area 1 starts at byte 0 of sector 5; area 2 starts 8 bytes before the end
\* of sector 6 and runs into sector 7
Area1Start == 5 * SECTOR_LENGTH
Area2Start == 6 * SECTOR_LENGTH + (SECTOR_LENGTH - 8)

\* the CE that points at area 1 covers it whole ("full"), starts after its
\* first entry ("skip") or ends 2 bytes short of its last entry ("cut")
CEVariants == {"full", "skip", "cut"}

OnDisc(k, a1, a2, variant) ==
    IF k = "CE1"
    THEN LET off == IF variant = "skip" /\ Len(a1) > 0 THEN SymLen(a1[1]) ELSE 0
             tot == SymTotal(a1, Len(a1))
         IN [sig |-> "CE", len |-> 28, location |-> 5, offset |-> off,
             length |-> tot - off - (IF variant = "cut" /\ tot > 0 THEN 2 ELSE 0)]
    ELSE IF k = "CE2"
    THEN [sig |-> "CE", len |-> 28, location |-> 6, offset |-> SECTOR_LENGTH - 8,
          length |-> SymTotal(a2, Len(a2))]
    ELSE [sig |-> k, len |-> SymLen(k)]

WalkImage(a1, a2, variant) ==
    [areas |-> (Area1Start :> [i \in 1..Len(a1) |-> OnDisc(a1[i], a1, a2, variant)])
            @@ (Area2Start :> [i \in 1..Len(a2) |-> OnDisc(a2[i], a1, a2, variant)]),
     dirs |-> <<>>]

InitWalk ==
    \E all \in SeqsUpTo(SymKinds, MaxEntries), variant \in CEVariants,
       mf \in {1, DefaultMinFetch} :
      \E i \in 0..Len(all) : \E j \in i..Len(all) :
        LET emb == SubSeq(all, 1, i)
            a1 == SubSeq(all, i + 1, j)
            a2 == SubSeq(all, j + 1, Len(all))
        IN \* Record.__init__ stops decoding the embedded entries at the first ST
           /\ \A k \in 1..(Len(emb) - 1) : emb[k] # "ST"
           /\ source = NewSource(FALSE, mf)
           /\ image = WalkImage(a1, a2, variant)
           /\ walk = NewWalk([k \in 1..Len(emb) |->
                                LET raw == OnDisc(emb[k], a1, a2, variant)
                                IN [raw |-> raw, cls |-> EntryClass(source, raw), at |-> 0]])
           /\ facade = NoFacade
           /\ resolved = <<>>
           /\ call = NoCall

\* the consumer pulls the generator: one iteration of its loop
PullWalk ==
    /\ walk.active
    /\ LoopCond(walk)
    /\ Len(walk.yielded) < MaxYield
    /\ LET r == WalkStep(walk, [source EXCEPT !.fetched = <<>>], image)
       IN walk' = r.w /\ source' = r.src
    /\ UNCHANGED <<image, facade, resolved, call>>

NextWalk == PullWalk

SpecWalk == InitWalk /\ [][NextWalk]_vars

WalkDone == walk.active /\ ~LoopCond(walk)

\* the positions of the ST entries among the yielded entries
STs == {i \in DOMAIN walk.yielded : walk.yielded[i].entry.cls = "ST"}

(* C1 as stated: once an ST entry has been yielded, no further entry is
   ever yielded, also when a CE was yielded earlier and not yet followed. *)
C1_STEndsWalk ==
    [][(walk.active /\ STs # {}) => walk'.yielded = walk.yielded]_vars

\* a CE was yielded before position i in the same area and is still pending
PendingAt(i) ==
    \E k \in 1..(i - 1) :
        /\ walk.yielded[k].entry.cls = "CE"
        /\ walk.yielded[k].visit = walk.yielded[i].visit

(* C1 amended: once an ST has been yielded, no further entry of the area it
   was read from (embedded or continuation) is yielded, and nothing at all
   is yielded after it unless a CE yielded earlier from that same area was
   still pending: the walk then goes on with that CE's continuation area. *)
C1_STEndsArea ==
    walk.active =>
        \A i \in STs :
            /\ \A j \in DOMAIN walk.yielded : j > i => walk.yielded[j].visit > walk.yielded[i].visit
            /\ ~PendingAt(i) => i = Len(walk.yielded)

\* a finished walk that stopped at an ST inside a continuation area with no
\* CE pending, although the area holds another entry after the ST
C1_Witness ==
    /\ WalkDone
    /\ \E i \in STs :
         /\ i = Len(walk.yielded)
         /\ walk.yielded[i].visit > 0
         /\ ~PendingAt(i)
         /\ EntryAt(image, walk.yielded[i].entry.at + 4) # ZeroEntry
         /\ source._len >= cursor(source) + 4

\* ---- the order the claim describes, written from the image alone ----
\* the entries of one continuation window, from byte pos to byte end
RECURSIVE AreaEntries(_, _, _)
AreaEntries(img, pos, end) ==
    IF end - pos < 4 THEN <<>>
    ELSE LET e == EntryAt(img, pos)
         IN IF e.len > end - pos \/ e.len < 4 THEN <<>>
            ELSE IF e.sig = "ST" THEN <<[raw |-> e, at |-> pos]>>
            ELSE <<[raw |-> e, at |-> pos]>> \o AreaEntries(img, pos + e.len, end)

HasSig(list, sig) == \E i \in DOMAIN list : list[i].raw.sig = sig
LastCE(list) ==
    list[CHOOSE i \in DOMAIN list :
            list[i].raw.sig = "CE" /\ \A j \in DOMAIN list : j > i => list[j].raw.sig # "CE"].raw

\* list, then the areas reached from its last CE, as long as no ST was met
RECURSIVE ChainFrom(_, _, _)
ChainFrom(img, list, fuel) ==
    IF fuel = 0 \/ HasSig(list, "ST") \/ ~HasSig(list, "CE") THEN list
    ELSE LET ce == LastCE(list)
             start == ce.location * SECTOR_LENGTH + ce.offset
         IN list \o ChainFrom(img, AreaEntries(img, start, start + ce.length), fuel - 1)

Plain(list) == [i \in DOMAIN list |-> [raw |-> list[i].entry.raw, at |-> list[i].entry.at]]
Take(list, n) == SubSeq(list, 1, Min(n, Len(list)))
IsPrefix(a, b) == Len(a) <= Len(b) /\ a = SubSeq(b, 1, Len(a))

\* the expected walk up to its first ST, and the entries yielded up to the
\* first ST
ExpectedWalk ==
    Take(ChainFrom(image, [i \in DOMAIN walk.embedded |->
                              [raw |-> walk.embedded[i].raw, at |-> 0]], MaxYield),
         MaxYield)
YieldedToST ==
    IF STs = {} THEN Plain(walk.yielded)
    ELSE Take(Plain(walk.yielded), CHOOSE i \in STs : \A j \in STs : i <= j)

\* the CE the walk followed last: the last CE yielded in the previous area
FollowedCE ==
    LastCE(Plain(SelectSeq(walk.yielded, LAMBDA y : y.visit = walk.visit - 1)))

(* C2: when the embedded entries are exhausted without an ST and a CE is
   pending, the walk seeks the window (CE.location, CE.offset + CE.length),
   skips CE.offset bytes and yields the continuation area's entries in
   on-disc order after all embedded entries, until CE.length bytes are
   consumed or an ST is yielded; of several CEs yielded before the switch
   only the most recent one is followed, and a CE found in a continuation
   area is followed in turn once that area is exhausted. *)
C2_ContinuationOrder ==
    walk.active =>
        /\ IsPrefix(YieldedToST, ExpectedWalk)
        /\ (WalkDone \/ Len(walk.yielded) = MaxYield) => YieldedToST = ExpectedWalk
        /\ (walk.visit > 0 /\ STs = {}) =>
              /\ source._len = FollowedCE.offset + FollowedCE.length
              /\ source._len > 0 => source._buff.data[1] = Image(FollowedCE.location)
              /\ cursor(source) >= FollowedCE.offset
              /\ walk.target # None => walk.target[1] = FollowedCE.offset + FollowedCE.length

\* a finished walk without ST that followed the later of two embedded CEs
\* into an area that spans two sectors, and then a CE found in that area
C2_Witness ==
    /\ WalkDone
    /\ STs = {}
    /\ walk.visit >= 2
    /\ Len(walk.embedded) = 2
    /\ walk.embedded[1].cls = "CE" /\ walk.embedded[2].cls = "CE"
    /\ walk.embedded[1].raw.location # walk.embedded[2].raw.location
    /\ \E i \in DOMAIN walk.yielded :
         walk.yielded[i].visit = 1 /\ walk.yielded[i].entry.at >= 7 * SECTOR_LENGTH

(***************************************************************************)
(* The facade specification: an ISO over an image, any sequence of         *)
(* iso.record and iso.root.find_child(...) calls                           *)
(***************************************************************************)
\* the image: root directory at sector 20 holding directory A (sector 21),
\* file F;1, file G, file F;2 and the empty directory E (sector 22);
\* A holds files F;1, G and F;2.  With SUSP ("susp", "rr") each child
\* carries its Rock Ridge name in an NM entry, G in a continuation area at
\* sector 23; "rr" adds the ER entry that announces Rock Ridge.
Modes == {"plain", "susp", "rr"}

SP_entry == [sig |-> "SP", len |-> 7, len_skp |-> 0]
ER_entry == [sig |-> "ER", len |-> 32, ext_id |-> "RRIP_1991A", ext_ver |-> 1]
NM_entry(name) == [sig |-> "NM", len |-> 6, flags |-> 0, name |-> name]
CE_entry(location, offset, length) ==
    [sig |-> "CE", len |-> 28, location |-> location, offset |-> offset, length |-> length]

DirEntry(ident_len, raw_name, location, length, is_directory, su) ==
    [ident_len |-> ident_len, raw_name |-> raw_name, location |-> location,
     length |-> length, is_directory |-> is_directory, su |-> su]

Named(mode, name) == IF mode = "plain" THEN <<>> ELSE <<NM_entry(name)>>
NamedFar(mode) == IF mode = "plain" THEN <<>> ELSE <<CE_entry(23, 0, 6)>>

SelfEntry(location, su) == DirEntry(1, "", location, SECTOR_LENGTH, TRUE, su)

IsoImage(mode) ==
    [areas |-> IF mode = "plain" THEN <<>> ELSE (23 * SECTOR_LENGTH :> <<NM_entry("g")>>),
     dirs |->
        (20 :> << SelfEntry(20, IF mode = "plain" THEN <<>>
                                ELSE IF mode = "susp" THEN <<SP_entry>>
                                ELSE <<SP_entry, ER_entry>>),
                  SelfEntry(20, <<>>),
                  DirEntry(1, "A", 21, SECTOR_LENGTH, TRUE, Named(mode, "a")),
                  DirEntry(3, "F", 24, 10, FALSE, Named(mode, "f")),
                  DirEntry(1, "G", 25, 3000, FALSE, NamedFar(mode)),
                  DirEntry(3, "F", 26, 20, FALSE, Named(mode, "f")),
                  DirEntry(1, "E", 22, SECTOR_LENGTH, TRUE, Named(mode, "e")) >>)
     @@ (21 :> << SelfEntry(21, <<>>),
                  SelfEntry(20, <<>>),
                  DirEntry(3, "F", 27, 10, FALSE, Named(mode, "f")),
                  DirEntry(1, "G", 28, 10, FALSE, NamedFar(mode)),
                  DirEntry(3, "F", 29, 20, FALSE, Named(mode, "f")) >>)
     @@ (22 :> << SelfEntry(22, <<>>), SelfEntry(20, <<>>) >>),
     root |-> [location |-> 20, length |-> SECTOR_LENGTH],
     path_table_l_loc |-> 18,
     path_table_size |-> 30,
     path_table |-> (<<>> :> 20) @@ (<<"A">> :> 21) @@ (<<"E">> :> 22)]

\* the paths the calls are made with
Paths ==
    {<<"a">>, <<"f">>, <<"F">>, <<"g">>, <<"x">>,
     <<"a", "f">>, <<"a", "x">>, <<"e", "x">>, <<"f", "x">>}

\* calls made on one ISO object
MaxCalls == 3

InitIso ==
    \E mode \in Modes, mf \in {1, MaxMinFetch} :
        \E init \in {ISOInit(NewSource(FALSE, mf), IsoImage(mode))} :
           /\ source = [init.src EXCEPT !.fetched = <<>>]
           /\ image = IsoImage(mode)
           /\ walk = NoWalk
           /\ facade = init.facade
           /\ resolved = <<>>
           /\ call = [op |-> "new", n |-> 0]

\* the record objects PathTable.record made during a call are dropped with it
Persistent(objs) == [id \in {i \in DOMAIN objs : i = <<>> \/ i[1] # 0} |-> objs[id]]

\* what a caller sees of a returned record
Seen(rec, src, img) ==
    [location |-> rec.location, length |-> rec.length,
     name |-> RecordName(rec, src, img).name,
     is_directory |-> rec.is_directory, id |-> rec.id, is_copy |-> rec.is_copy]

\* iso.record(*path)
DoRecord ==
    /\ facade.active
    /\ call.n < MaxCalls
    /\ \E path \in Paths :
        \E r \in {ISORecord([source EXCEPT !.fetched = <<>>], image, facade, path)} :
        \E seen \in {IF r.outcome = "ok" THEN Some(Seen(r.record[1], r.src, image)) ELSE None} :
           /\ source' = r.src
           /\ facade' = [r.iso EXCEPT !.objs = Persistent(@)]
           /\ resolved' = IF r.outcome = "ok" /\ path \notin DOMAIN resolved
                          THEN (path :> seen[1]) @@ resolved ELSE resolved
           /\ call' = [op |-> "record", n |-> call.n + 1, path |-> path,
                       outcome |-> r.outcome, record |-> seen,
                       again |-> path \in DOMAIN resolved,
                       before |-> DOMAIN source._sectors]
           /\ UNCHANGED <<image, walk>>

\* iso.root.find_child(c1')...find_child(cn')
DoFindChild ==
    /\ facade.active
    /\ call.n < MaxCalls
    /\ \E path \in Paths :
        \E r \in {FindChain([source EXCEPT !.fetched = <<>>], image, facade.objs,
                            facade.root, Normalize(source, path))} :
        \E seen \in {IF r.outcome = "ok" THEN Some(Seen(r.record[1], r.src, image)) ELSE None} :
           /\ source' = r.src
           /\ facade' = [facade EXCEPT !.objs = r.objs]
           /\ call' = [op |-> "find_child", n |-> call.n + 1, path |-> path,
                       outcome |-> r.outcome, record |-> seen,
                       again |-> FALSE,
                       before |-> DOMAIN source._sectors]
           /\ UNCHANGED <<image, walk, resolved>>

NextIso == DoRecord \/ DoFindChild

SpecIso == InitIso /\ [][NextIso]_vars

(***************************************************************************)
(* Claims about find_child and ISO.record                                  *)
(***************************************************************************)
\* the Rock Ridge names of the image are the lower-cased identifiers
Lower(raw) ==
    CASE raw = "A" -> "a" [] raw = "E" -> "e" [] raw = "F" -> "f"
      [] raw = "G" -> "g" [] OTHER -> raw

\* the name a child entry carries: its Rock Ridge name when Rock Ridge is on,
\* else its identifier
EffectiveName(e) == IF source.rockridge THEN Lower(e.raw_name) ELSE e.raw_name

\* the children of the directory at sector d: its entries after "." and ".."
ChildEntries(d) == {image.dirs[d][k] : k \in 3..Len(image.dirs[d])}

\* the directory (its sector) the last component of path p is looked up in,
\* if the components before it name directories
ParentDir(p) ==
    IF Len(p) = 1 THEN Some(image.root.location)
    ELSE LET ds == {e \in ChildEntries(image.root.location) :
                       EffectiveName(e) = p[1] /\ e.is_directory}
         IN IF ds = {} THEN None ELSE Some((CHOOSE e \in ds : TRUE).location)

\* the last component of p is looked up in a directory none of whose
\* children carries it
Missing(p) ==
    /\ ParentDir(p) # None
    /\ \A e \in ChildEntries(ParentDir(p)[1]) : EffectiveName(e) # p[Len(p)]

IsoCall == facade.active /\ call.op \in {"record", "find_child"}

\* C3: every find_child of a name no child of the directory carries raises
\* KeyError (first miss, later misses, empty directory), and ISO.record
\* surfaces the same KeyError
C3_MissRaisesKeyError ==
    IsoCall /\ Missing(Normalize(source, call.path)) => call.outcome = "KeyError"

SameRecord(a, b) == a.location = b.location /\ a.length = b.length /\ a.name = b.name

\* C4: iso.record with a path that resolved before returns a record equal
\* (location, length, name) to the one the first resolution returned
C4_SamePathSameRecord ==
    (facade.active /\ call.op = "record" /\ call.path \in DOMAIN resolved)
        => /\ call.outcome = "ok"
           /\ SameRecord(call.record[1], resolved[call.path])

\* C5: a resolution by iso.record of a path that was resolved before issues
\* no backend fetch and adds no sector to the sector cache
C5_SecondResolutionFetchesNothing ==
    (facade.active /\ call.op = "record" /\ call.again)
        => /\ source.fetched = <<>>
           /\ DOMAIN source._sectors = call.before

\* the second resolution of a two-component path with Rock Ridge off: the
\* path table record is read again and its directory scanned again
C5_Witness ==
    /\ facade.active /\ call.op = "record" /\ call.again /\ call.outcome = "ok"
    /\ Len(call.path) = 2
    /\ ~source.rockridge
    /\ source.fetched = <<>>

\* C6: from any state, iso.record(c1, ..., cn) returns a record with the
\* location and length of the one root.find_child(c1')...find_child(cn')
\* returns, ci' upper-cased when Rock Ridge is off
C6_RecordIsFindChildChain ==
    facade.active =>
        \A path \in Paths :
            \A a \in {ISORecord(source, image, facade, path)} :
            \A b \in {FindChain(source, image, facade.objs, facade.root,
                                Normalize(source, path))} :
                (a.outcome = "ok" \/ b.outcome = "ok")
                    => /\ a.outcome = "ok" /\ b.outcome = "ok"
                       /\ a.record[1].location = b.record[1].location
                       /\ a.record[1].length = b.record[1].length

(***************************************************************************)
(* The cursor specification: a source, any sequence of seeks, raw reads    *)
(* and rewinds on the window of the last seek                              *)
(***************************************************************************)
\* Source.rewind_raw(l)
rewind_raw(src, l) == [src EXCEPT !._buff.pos = @ - l]
rewind_raw_fails(src, l) == cursor(src) < l

\* byte counts the reads and rewinds are tried with
RawLengths == {0, SECTOR_LENGTH \div 2, SECTOR_LENGTH, SECTOR_LENGTH + SECTOR_LENGTH \div 2}

\* _buff is None until the first seek
HasWindow == call.op # "none"

DoUnpackRaw ==
    /\ HasWindow
    /\ \E l \in RawLengths :
        /\ source' = unpack_raw(source, l)
        /\ call' = [op |-> "unpack_raw", l |-> l, pos |-> cursor(source),
                    remaining |-> source._buff.size - cursor(source),
                    outcome |-> IF unpack_raw_fails(source, l) THEN "SourceError" ELSE "ok"]
    /\ UNCHANGED <<image, walk, facade, resolved>>

DoRewindRaw ==
    /\ HasWindow
    /\ \E l \in RawLengths :
        /\ source' = IF rewind_raw_fails(source, l) THEN source ELSE rewind_raw(source, l)
        /\ call' = [op |-> "rewind_raw", l |-> l, pos |-> cursor(source),
                    remaining |-> source._buff.size - cursor(source),
                    outcome |-> IF rewind_raw_fails(source, l) THEN "SourceError" ELSE "ok"]
    /\ UNCHANGED <<image, walk, facade, resolved>>

InitCursor ==
    /\ \E mf \in {0, MaxMinFetch} : source = NewSource(FALSE, mf)
    /\ image = NoImage
    /\ walk = NoWalk
    /\ facade = NoFacade
    /\ resolved = <<>>
    /\ call = NoCall

NextCursor == DoSeek \/ DoUnpackRaw \/ DoRewindRaw

SpecCursor == InitCursor /\ [][NextCursor]_vars

\* C11: after any seeks, reads and rewinds the cursor is within
\* [0, window length] and len(source) is the number of bytes still readable;
\* a read of more bytes than remain, and a rewind of more bytes than the
\* cursor position, fail with SourceError
C11_CursorInWindow ==
    HasWindow =>
        /\ 0 <= cursor(source) /\ cursor(source) <= source._len
        /\ SourceLen(source) = source._buff.size - cursor(source)
        /\ (call.op = "unpack_raw" /\ call.l > call.remaining)
              => call.outcome = "SourceError"
        /\ (call.op = "rewind_raw" /\ call.l > call.pos)
              => call.outcome = "SourceError"

\* a read that under-runs in the middle of a window, and leaves the cursor
\* at its end
C11_Witness ==
    /\ call.op = "unpack_raw" /\ call.outcome = "SourceError"
    /\ call.pos > 0 /\ call.remaining > 0
    /\ cursor(source) = source._len
    /\ SourceLen(source) = 0

(***************************************************************************)
(* source.py: unpack_both and unpack_smart over the bytes of a window      *)
(***************************************************************************)
\* struct.calcsize of one code with a byte-order prefix (no alignment)
CodeSize(code) ==
    CASE code = "b" -> 1 [] code = "B" -> 1 [] code = "h" -> 2 [] code = "H" -> 2
      [] code = "I" -> 4

RECURSIVE CalcSize(_)
CalcSize(st) == IF st = <<>> THEN 0 ELSE CodeSize(Head(st)) + CalcSize(Tail(st))

RECURSIVE Pow256(_)
Pow256(n) == IF n = 0 THEN 1 ELSE 256 * Pow256(n - 1)

\* the unsigned value of bytes read least significant byte first
RECURSIVE LittleEndian(_)
LittleEndian(bytes) ==
    IF bytes = <<>> THEN 0 ELSE Head(bytes) + 256 * LittleEndian(Tail(bytes))

\* the unsigned value of bytes read most significant byte first
RECURSIVE BigEndian(_)
BigEndian(bytes) ==
    IF bytes = <<>> THEN 0
    ELSE Head(bytes) * Pow256(Len(bytes) - 1) + BigEndian(Tail(bytes))

\* the value struct gives a code: two's complement for the signed codes
CodeValue(code, unsigned) ==
    IF code \in {"b", "h"} /\ unsigned >= Pow256(CodeSize(code)) \div 2
    THEN unsigned - Pow256(CodeSize(code))
    ELSE unsigned

\* the value of one field: a number, and for a 4-byte code the pair of its
\* high and low 16-bit halves (the numbers handled stay below 2^16)
FieldValue(order, code, field) ==
    IF CodeSize(code) = 4
    THEN IF order = "<"
         THEN <<LittleEndian(SubSeq(field, 3, 4)), LittleEndian(SubSeq(field, 1, 2))>>
         ELSE <<BigEndian(SubSeq(field, 1, 2)), BigEndian(SubSeq(field, 3, 4))>>
    ELSE CodeValue(code, IF order = "<" THEN LittleEndian(field) ELSE BigEndian(field))

\* struct.unpack(order + st, raw): one value per code
RECURSIVE StructUnpack(_, _, _)
StructUnpack(order, st, raw) ==
    IF st = <<>> THEN <<>>
    ELSE LET n == CodeSize(Head(st))
         IN <<FieldValue(order, Head(st), SubSeq(raw, 1, n))>>
            \o StructUnpack(order, Tail(st), SubSeq(raw, n + 1, Len(raw)))

\* the bytes of the window a read of l bytes at the cursor returns; the
\* window of the byte-level images starts at byte 0 of image.bytes
WindowBytes(src, img, l) == SubSeq(img.bytes, cursor(src) + 1, cursor(src) + l)

\* an outcome of a decode: the values and the source, or the error raised
Decoded(values, src) == [outcome |-> "ok", values |-> values, src |-> src]
DecodeError(exc, values, src) == [outcome |-> exc, values |-> values, src |-> src]

\* Source._unpack_both(st) on the bytes read
_unpack_both(st, raw) == [le |-> StructUnpack("<", st, raw), be |-> StructUnpack(">", st, raw)]

unpack_both_le_only(src, img, code) ==
    Decoded(<<_unpack_both(<<code, code>>, WindowBytes(src, img, 2 * CodeSize(code))).le[1]>>,
            unpack_raw(src, 2 * CodeSize(code)))
\* Source.unpack_both(st)
unpack_both(src, img, code) ==
    IF unpack_raw_fails(src, 2 * CodeSize(code))
    THEN DecodeError("SourceError: under-run", <<>>, unpack_raw(src, 2 * CodeSize(code)))
    ELSE LET r == _unpack_both(<<code, code>>, WindowBytes(src, img, 2 * CodeSize(code)))
             a == r.le[1]
             b == r.be[2]
         IN IF a # b
            THEN DecodeError("SourceError: mismatch", <<>>, unpack_raw(src, 2 * CodeSize(code)))
            ELSE Decoded(<<a>>, unpack_raw(src, 2 * CodeSize(code)))

\* unpack_smart: the pack list of a format ('t' and 'T' are left out)
RECURSIVE PackList(_)
PackList(st) ==
    IF st = <<>> THEN <<>>
    ELSE (IF Head(st) \in {"b", "B"}
          THEN <<[pack |-> <<Head(st)>>, handler |-> "None"]>>
          ELSE <<[pack |-> <<Head(st), Head(st)>>, handler |-> "both"]>>)
         \o PackList(Tail(st))

RECURSIVE PackSt(_)
PackSt(pack_list) ==
    IF pack_list = <<>> THEN <<>> ELSE Head(pack_list).pack \o PackSt(Tail(pack_list))

\* the loop of unpack_smart over izip(pack_list, value_iter): k is the place
\* in pack_list, i the place in value_iter
RECURSIVE SmartLoop(_, _, _, _, _, _, _)
SmartLoop(pack_list, a, b, k, i, yielded, src) ==
    IF k > Len(pack_list) THEN Decoded(yielded, src)
    ELSE IF pack_list[k].handler = "both"
    THEN IF a[i] # b[i + 1]
         THEN DecodeError("SourceError: mismatch", yielded, src)
         ELSE SmartLoop(pack_list, a, b, k + 1, i + 2, Append(yielded, a[i]), src)
    ELSE SmartLoop(pack_list, a, b, k + 1, i + 1, Append(yielded, a[i]), src)

\* Source.unpack_smart(st), consumed to its end
unpack_smart(src, img, st) ==
    LET pack_st == PackSt(PackList(st))
        raw == WindowBytes(src, img, CalcSize(pack_st))
    IN IF unpack_raw_fails(src, CalcSize(pack_st))
       THEN DecodeError("SourceError: under-run", <<>>, unpack_raw(src, CalcSize(pack_st)))
       ELSE SmartLoop(PackList(st), StructUnpack("<", pack_st, raw),
                      StructUnpack(">", pack_st, raw), 1, 1, <<>>,
                      unpack_raw(src, CalcSize(pack_st)))

(***************************************************************************)
(* The both-endian specification: a window of bytes, any sequence of       *)
(* unpack_both and unpack_smart calls and seeks back to its start          *)
(***************************************************************************)
\* bytes in the window
WindowSize == 8
\* the values a byte of the window takes
ByteVals == {0, 1, 128}

BothCodes == {"h", "H", "I"}
SmartFormats == {<<"I">>, <<"B", "I">>, <<"H", "H">>, <<"h", "B">>, <<"H", "b", "H">>}

ByteImage(raw) == [areas |-> <<>>, dirs |-> <<>>, bytes |-> raw]

InitEndian ==
    /\ \E raw \in [1..WindowSize -> ByteVals] : image = ByteImage(raw)
    /\ source = Seek(NewSource(FALSE, 1), 0, WindowSize, FALSE)
    /\ walk = NoWalk
    /\ facade = NoFacade
    /\ resolved = <<>>
    /\ call = NoCall

DoSeekStart ==
    /\ cursor(source) > 0
    /\ source' = Seek([source EXCEPT !.fetched = <<>>], 0, WindowSize, FALSE)
    /\ call' = [op |-> "seek", start_sector |-> 0, length |-> WindowSize,
                is_content |-> FALSE, before |-> DOMAIN source._sectors]
    /\ UNCHANGED <<image, walk, facade, resolved>>

DoUnpackBoth ==
    \E code \in BothCodes :
    \E r \in {unpack_both(source, image, code)} :
        /\ source' = r.src
        /\ call' = [op |-> "unpack_both", st |-> <<code>>, pos |-> cursor(source),
                    outcome |-> r.outcome, values |-> r.values]
        /\ UNCHANGED <<image, walk, facade, resolved>>

DoUnpackSmart ==
    \E st \in SmartFormats :
    \E r \in {unpack_smart(source, image, st)} :
        /\ source' = r.src
        /\ call' = [op |-> "unpack_smart", st |-> st, pos |-> cursor(source),
                    outcome |-> r.outcome, values |-> r.values]
        /\ UNCHANGED <<image, walk, facade, resolved>>

NextEndian == DoSeekStart \/ DoUnpackBoth \/ DoUnpackSmart

SpecEndian == InitEndian /\ [][NextEndian]_vars

\* ---- what the disc holds, written from the layout of a both-endian field ----
Reverse(seq) == [i \in 1..Len(seq) |-> seq[Len(seq) + 1 - i]]

\* the offset of the k-th code of st from the start of the read
RECURSIVE FieldOffset(_, _)
FieldOffset(st, k) ==
    IF k = 1 THEN 0
    ELSE FieldOffset(st, k - 1)
         + (IF st[k - 1] \in BothCodes THEN 2 * CodeSize(st[k - 1]) ELSE CodeSize(st[k - 1]))

FormatSize(st) == FieldOffset(Append(st, "B"), Len(st) + 1)

\* the two halves of the k-th code of st, a both-endian code, read at pos
LEHalf(bytes, st, k, pos) ==
    SubSeq(bytes, pos + FieldOffset(st, k) + 1, pos + FieldOffset(st, k) + CodeSize(st[k]))
BEHalf(bytes, st, k, pos) ==
    SubSeq(bytes, pos + FieldOffset(st, k) + CodeSize(st[k]) + 1,
           pos + FieldOffset(st, k) + 2 * CodeSize(st[k]))

\* the halves hold the same number: one is the other byte-reversed
Consistent(bytes, st, k, pos) == BEHalf(bytes, st, k, pos) = Reverse(LEHalf(bytes, st, k, pos))

BothFields(st) == {k \in 1..Len(st) : st[k] \in BothCodes}

DecodeCall == call.op \in {"unpack_both", "unpack_smart"}
InWindow(c) == c.pos + FormatSize(c.st) <= WindowSize

\* bytes with byte i replaced by v
Changed(bytes, i, v) == [bytes EXCEPT ![i] = v]

\* C12: unpack_both and the both-endian codes of unpack_smart return v only
\* when both halves of the field decode to v, raise the mismatch SourceError
\* whenever the halves differ, and so fail on a consistent field with any
\* single byte changed
C12_BothHalvesAgree ==
    (DecodeCall /\ InWindow(call)) =>
        LET bytes == image.bytes
            fields == BothFields(call.st)
        IN /\ (call.outcome = "ok") <=>
                  (\A k \in fields : Consistent(bytes, call.st, k, call.pos))
           /\ (call.outcome # "ok") => call.outcome = "SourceError: mismatch"
           /\ (call.outcome = "ok") =>
                  \A k \in fields :
                     /\ call.values[k] = FieldValue("<", call.st[k],
                                                     LEHalf(bytes, call.st, k, call.pos))
                     /\ call.values[k] = FieldValue(">", call.st[k],
                                                     BEHalf(bytes, call.st, k, call.pos))
           /\ (call.op = "unpack_both" /\ call.outcome = "ok") =>
                  \A i \in (call.pos + 1)..(call.pos + FormatSize(call.st)) :
                  \A v \in (ByteVals \cup {255}) \ {bytes[i]} :
                     unpack_both([source EXCEPT !._buff.pos = call.pos],
                                 ByteImage(Changed(bytes, i, v)),
                                 call.st[1]).outcome = "SourceError: mismatch"

\* a field whose little-endian half alone is a valid value is refused, and
\* a consistent signed field with a non-zero value is decoded
C12_Witness ==
    /\ call.op = "unpack_both" /\ InWindow(call) /\ call.st = <<"h">>
    /\ call.outcome = "ok" /\ call.values[1] < 0

(***************************************************************************)
(* The directory specification: one directory extent, read record by       *)
(* record (unpack_record, unpack_boundary) or as a whole (children), by a  *)
(* source that is new, or set up by ISO.__init__ with or without SUSP      *)
(***************************************************************************)
Filler(n) == [sig |-> "--", len |-> n]
PX_entry == [sig |-> "PX", len |-> 36]
ST_entry == [sig |-> "ST", len |-> 4]
SP_skip(n) == [sig |-> "SP", len |-> SP_LENGTH, len_skp |-> n]

\* the len_skp values a root SP declares: nothing to skip, the SP's own
\* length, one byte more than the SP
SkipValues == {0, SP_LENGTH, SP_LENGTH + 1}

\* how the source was set up: "new" (susp_starting_index unknown), by
\* ISO.__init__ on a root with an SP ("susp") or without ("plain")
Setups == {"new", "susp", "plain"}

Pre(skip) == IF skip = 0 THEN <<>> ELSE <<Filler(skip)>>

\* system-use areas of a child entry that is parsed with a skip of `skip`
\* bytes: empty, one pad byte, an entry after the skipped bytes, entries
\* around an ST with a pad byte at the end
Shapes == {"empty", "pad", "px", "st"}
SystemUseArea(shape, skip) ==
    CASE shape = "empty" -> <<>>
      [] shape = "pad" -> <<Filler(1)>>
      [] shape = "px" -> Pre(skip) \o <<PX_entry>>
      [] shape = "st" -> Pre(skip) \o <<NM_entry("f"), ST_entry, PX_entry, Filler(1)>>

\* the system-use area of the root's "." entry: the SP, the bytes the code
\* skips after an SP longer than SP_LENGTH, an ER
RootSystemUse(setup, n) ==
    IF setup = "plain" THEN <<>>
    ELSE <<SP_skip(n)>> \o (IF n > SP_LENGTH THEN <<Filler(n - SP_LENGTH)>> ELSE <<>>)
         \o <<ER_entry>>

\* children in the first sector of the extent
MaxChildren == 2

DirLengths == {SECTOR_LENGTH, 2 * SECTOR_LENGTH, SECTOR_LENGTH + SECTOR_LENGTH \div 2}

ChildOf(shape, skip, k) ==
    DirEntry(1 + (k % 2), "C", 30 + k, 10, FALSE, SystemUseArea(shape, skip))

\* the skip the children of the image are laid out for
LayoutSkip(setup, n) == IF setup = "susp" THEN n ELSE 0

DirImage(setup, n, shapes, tail, length) ==
    [areas |-> <<>>,
     dirs |-> (20 :> (<< SelfEntry(20, RootSystemUse(setup, n)),
                         SelfEntry(20, Pre(LayoutSkip(setup, n))) >>
                      \o [k \in 1..Len(shapes) |->
                             ChildOf(shapes[k], LayoutSkip(setup, n), k)]))
              @@ (21 :> [k \in 1..Len(tail) |->
                            ChildOf(tail[k], LayoutSkip(setup, n), Len(shapes) + k)]),
     root |-> [location |-> 20, length |-> length],
     path_table_l_loc |-> 18,
     path_table_size |-> 30,
     path_table |-> (<<>> :> 20)]

InitDir ==
    \E setup \in Setups, n \in SkipValues, length \in DirLengths :
    \E shapes \in SeqsUpTo(Shapes, MaxChildren), tail \in SeqsUpTo(Shapes, 1) :
    \E img \in {DirImage(setup, n, shapes, tail, length)} :
    \E src \in {IF setup = "new"
                THEN Seek(NewSource(FALSE, 1), 20, length, FALSE)
                ELSE Seek(ISOInit(NewSource(FALSE, 1), img).src, 20, length, FALSE)} :
        /\ setup = "plain" => n = 0
        /\ image = img
        /\ source = [src EXCEPT !.fetched = <<>>]
        /\ walk = NoWalk
        /\ facade = NoFacade
        /\ resolved = <<>>
        /\ call = [op |-> "seek", start_sector |-> 20, length |-> length,
                   is_content |-> FALSE, before |-> {}]

\* the directory entry whose length byte is at the cursor, if any
EntryAtCursor(src, img) ==
    LET hits == DirHits(img, WindowAbs(src, cursor(src)))
    IN IF hits = {} THEN None
       ELSE LET h == CHOOSE h \in hits : TRUE IN Some(img.dirs[h[1]][h[2]])

\* source.unpack_record() at the cursor
DoUnpackRecord ==
    /\ SourceLen(source) > 0
    /\ \E r \in {unpack_record(source, image, <<>>)} :
        /\ source' = r.src
        /\ call' = [op |-> "unpack_record", pos |-> cursor(source),
                    ssi |-> source.susp_starting_index,
                    entry |-> EntryAtCursor(source, image),
                    outcome |-> r.outcome, record |-> r.record]
    /\ UNCHANGED <<image, walk, facade, resolved>>

\* source.unpack_boundary() at the cursor
DoUnpackBoundary ==
    /\ SourceLen(source) > 0
    /\ source' = unpack_boundary(source)
    /\ call' = [op |-> "unpack_boundary", pos |-> cursor(source),
                outcome |-> IF unpack_boundary_fails(source) THEN "SourceError" ELSE "ok"]
    /\ UNCHANGED <<image, walk, facade, resolved>>

\* the while loop of _children_unsafe, consumed by list()
RECURSIVE ChildrenLoop(_, _, _, _)
ChildrenLoop(src, img, rec, children) ==
    IF ~(SourceLen(src) > 0)
    THEN [outcome |-> "ok", children |-> children, src |-> src]
    ELSE Bind(unpack_record(src, img, rec.id), LAMBDA r :
        IF r.outcome # "ok"
        THEN [outcome |-> r.outcome, children |-> children, src |-> r.src]
        ELSE IF r.record = None
        THEN IF unpack_boundary_fails(r.src)
             THEN [outcome |-> "SourceError", children |-> children,
                   src |-> unpack_boundary(r.src)]
             ELSE ChildrenLoop(unpack_boundary(r.src), img, rec, children)
        ELSE ChildrenLoop(r.src, img, rec, Append(children, r.record[1])))

\* Record.children
Children(src, img, rec) ==
    IF ~rec.is_directory
    THEN [outcome |-> "AssertionError", children |-> <<>>, src |-> src]
    ELSE Bind(ChildrenStart(src, img, rec, TRUE, 0), LAMBDA s1 :
            ChildrenLoop(s1, img, rec, <<>>))

\* root.children
DoChildren ==
    /\ \E r \in {Children(source, image, RootRecord(image))} :
        /\ source' = [r.src EXCEPT !.fetched = <<>>]
        /\ call' = [op |-> "children", outcome |-> r.outcome, children |-> r.children]
    /\ UNCHANGED <<image, walk, facade, resolved>>

\* seek back to the start of the extent
DoSeekDir ==
    /\ cursor(source) > 0
    /\ source' = [Seek(source, image.root.location, image.root.length, FALSE)
                    EXCEPT !.fetched = <<>>]
    /\ call' = [op |-> "seek", start_sector |-> image.root.location,
                length |-> image.root.length, is_content |-> FALSE, before |-> {}]
    /\ UNCHANGED <<image, walk, facade, resolved>>

NextDir == DoUnpackRecord \/ DoUnpackBoundary \/ DoChildren \/ DoSeekDir

SpecDir == InitDir /\ [][NextDir]_vars

\* C13: for every directory entry and every state of susp_starting_index,
\* unpack_record returns with the cursor exactly the entry's length after the
\* entry's start
C13_CursorAfterRecord ==
    (call.op = "unpack_record" /\ call.entry # None)
        => /\ call.outcome = "ok"
           /\ cursor(source) = call.pos + RecLen(call.entry[1])

\* the items of a system-use area from byte offset n on (none when no item
\* starts there)
RECURSIVE FromOffset(_, _)
FromOffset(su, n) ==
    IF n = 0 THEN su
    ELSE IF su = <<>> \/ Head(su).len > n THEN <<>>
    ELSE FromOffset(Tail(su), n - Head(su).len)

\* the SUSP entries at the head of a run of items: up to the first ST, the
\* first item that is not an entry, or the end
RECURSIVE Entries(_)
Entries(items) ==
    IF items = <<>> \/ Head(items).sig = "--" THEN <<>>
    ELSE IF Head(items).sig = "ST" THEN <<Head(items)>>
    ELSE <<Head(items)>> \o Entries(Tail(items))

Raws(susp_entries) == [i \in DOMAIN susp_entries |-> susp_entries[i].raw]

\* where on the disc the system-use area of the entry of the call starts
CallSystemUse ==
    WindowAbs(source, call.pos) + SystemUseOffset(call.entry[1])

RootSP ==
    LET su == image.dirs[image.root.location][1].su
    IN IF su # <<>> /\ su[1].sig = "SP" THEN Some(su[1]) ELSE None

\* C15: after ISO construction on a root whose SP declares len_skp = n the
\* source skips n bytes in every record (n = 0 included, which is not the
\* disabled state): a record parsed afterwards holds the entries that start
\* n bytes into its system-use area, or its area is shorter than n; in the
\* disabled state no entry is decoded; a record parsed while the state is
\* unknown keeps its SP and decodes on behind max(len_skp, 7) bytes
C15_SkipApplied ==
    /\ source.susp_starting_index.kind # "None" =>
          source.susp_starting_index =
              IF RootSP = None THEN [kind |-> "False", n |-> 0]
              ELSE [kind |-> "Skip", n |-> RootSP[1].len_skp]
    /\ (call.op = "unpack_record" /\ call.entry # None) =>
          LET su == call.entry[1].su
              n == call.ssi.n
          IN CASE call.ssi.kind = "Skip" ->
                    IF call.outcome = "ok"
                    THEN /\ Raws(call.record[1].embedded_susp_entries) = Entries(FromOffset(su, n))
                         /\ call.record[1].embedded_susp_entries # <<>> =>
                               call.record[1].embedded_susp_entries[1].at = CallSystemUse + n
                    ELSE SumLen(su, Len(su)) < n
               [] call.ssi.kind = "False" ->
                    /\ call.outcome = "ok"
                    /\ call.record[1].embedded_susp_entries = <<>>
               [] call.ssi.kind = "None" ->
                    (su # <<>> /\ su[1].sig = "SP") =>
                        /\ call.outcome = "ok"
                        /\ Raws(call.record[1].embedded_susp_entries)
                             = <<su[1]>> \o Entries(FromOffset(su, Max(su[1].len_skp, SP_LENGTH)))

\* a record with two entries behind a skip of eight bytes
C15_Witness ==
    /\ call.op = "unpack_record"
    /\ call.entry # None
    /\ call.ssi = [kind |-> "Skip", n |-> SP_LENGTH + 1]
    /\ call.outcome = "ok"
    /\ Len(call.record[1].embedded_susp_entries) >= 2

\* the entries of the root's extent in on-disc order, sector after sector of
\* the declared length
RECURSIVE ExtentEntries(_, _)
ExtentEntries(sector, length) ==
    IF length <= 0 THEN <<>>
    ELSE (IF sector \in DOMAIN image.dirs THEN image.dirs[sector] ELSE <<>>)
         \o ExtentEntries(sector + 1, length - SECTOR_LENGTH)

RootEntries == ExtentEntries(image.root.location, image.root.length)

\* C18: for a directory extent of any declared length, children returns
\* without error the entries of the extent other than the first two, in
\* on-disc order, entries behind a zero filler included
C18_ChildrenAll ==
    call.op = "children" =>
        /\ call.outcome = "ok"
        /\ [i \in DOMAIN call.children |-> call.children[i].location]
             = [i \in 1..(Len(RootEntries) - 2) |-> RootEntries[i + 2].location]

\* C19: every find_child that returns a non-directory record returns a copy,
\* an object other than the record held in the directory's child cache, on
\* the first lookup of the name and on every later one
C19_FileIsCopy ==
    (call.op = "find_child" /\ call.outcome = "ok" /\ ~call.record[1].is_directory)
        => call.record[1].is_copy

\* the sector of the directory a record object stands for: the root, or the
\* child read at the offset its id ends with
RECURSIVE DirOf(_)
DirOf(id) ==
    IF id = <<>> THEN image.root.location
    ELSE LET d == DirOf(SubSeq(id, 1, Len(id) - 1))
         IN IF d \notin DOMAIN image.dirs THEN NoSector
            ELSE LET js == {j \in DOMAIN image.dirs[d] :
                              /\ DirOffset(image.dirs[d], j - 1) = id[Len(id)]
                              /\ image.dirs[d][j].is_directory}
                 IN IF js = {} THEN NoSector
                    ELSE image.dirs[d][CHOOSE j \in js : TRUE].location

\* how many entries of its directory an object has behind it: the first two
\* before any scan, the entries up to the offset _last_cached_child holds,
\* all of them once the scan has come to the end; -1 for an offset that is
\* not the end of an entry
ScannedUpTo(o, entries) ==
    CASE o._last_cached_child.kind = "None" -> 2
      [] o._last_cached_child.kind = "False" -> Len(entries)
      [] OTHER ->
           LET js == {j \in DOMAIN entries : DirOffset(entries, j) = o._last_cached_child.n}
           IN IF js = {} THEN -1 ELSE CHOOSE j \in js : TRUE

\* the name cache as name -> location of the record held
CacheLocations(cache) == [nm \in DOMAIN cache |-> cache[nm].location]

\* the locations entered for entries from + 1 .. to, one after the other,
\* each under its effective name
RECURSIVE EnterAll(_, _, _, _)
EnterAll(locs, entries, from, to) ==
    IF from >= to THEN locs
    ELSE EnterAll((EffectiveName(entries[from + 1]) :> entries[from + 1].location) @@ locs,
                  entries, from + 1, to)

\* C22: in every step each directory object's scan goes on from where it
\* stood: _last_cached_child is the end of an entry not before the earlier
\* one, and the name cache is the earlier cache with exactly the entries in
\* between entered in on-disc order, whatever seeks the name reads made;
\* when a scan of the root returns a child the window is the root's extent
\* with the cursor at that offset
C22_ScanStep ==
    /\ (/\ call'.op = "find_child" /\ Len(call'.path) = 1 /\ call'.outcome = "ok"
        /\ Obj(facade.objs, <<>>) # facade'.objs[<<>>])
          => /\ source'._buff.data = <<image.root.location>>
             /\ source'._len = image.root.length
             /\ facade'.objs[<<>>]._last_cached_child = [kind |-> "Offset", n |-> cursor(source')]
    /\ \A id \in DOMAIN facade'.objs :
        DirOf(id) \in DOMAIN image.dirs =>
            LET entries == image.dirs[DirOf(id)]
                before == ScannedUpTo(Obj(facade.objs, id), entries)
                after == ScannedUpTo(facade'.objs[id], entries)
            IN /\ before >= 2
               /\ before <= after
               /\ CacheLocations(facade'.objs[id]._child_cache)
                    = EnterAll(CacheLocations(Obj(facade.objs, id)._child_cache),
                               entries, before, after)

C22_ScanNeverDisturbed == [][C22_ScanStep]_vars

\* a scan of the root that stopped at F and was resumed by the next call, past
\* G, whose name is read from a continuation area, up to E
C22_Witness ==
    /\ facade.active
    /\ source.rockridge
    /\ call.n = 2
    /\ call.path = <<"e", "x">>
    /\ <<"f">> \in DOMAIN resolved
    /\ <<>> \in DOMAIN facade.objs
    /\ facade.objs[<<>>]._last_cached_child.kind = "Offset"
    /\ "e" \in DOMAIN facade.objs[<<>>]._child_cache

(***************************************************************************)
(* The detection specification: ISO.__init__ on images whose root "."      *)
(* entry carries any short system-use area, then root.current_directory    *)
(***************************************************************************)
ER_of(ext_id, ext_ver) == [sig |-> "ER", len |-> 32, ext_id |-> ext_id, ext_ver |-> ext_ver]

\* where the continuation area of the root "." entry is
RootAreaStart == 23 * SECTOR_LENGTH

\* the entries a system-use area or a continuation area is made of
RootKinds == {"SP", "ER", "ER2", "ERx", "ERv", "PX", "ST"}
RootEntry(kind, area) ==
    CASE kind = "SP" -> SP_entry
      [] kind = "ER" -> ER_entry
      [] kind = "ER2" -> ER_of("IEEE_P1282", 1)
      [] kind = "ERx" -> ER_of("OTHER", 1)
      [] kind = "ERv" -> ER_of("RRIP_1991A", 2)
      [] kind = "PX" -> PX_entry
      [] kind = "ST" -> ST_entry
      [] kind = "CE" -> CE_entry(23, 0, SumLen(area, Len(area)))

MaxRootEntries == 3
RootAreas == {<<ER_entry>>, <<ER_of("OTHER", 1)>>, <<PX_entry, ER_of("IEEE_P1282", 1)>>}

DetectImage(kinds, area) ==
    [areas |-> (RootAreaStart :> area),
     dirs |-> (20 :> << SelfEntry(20, [k \in 1..Len(kinds) |-> RootEntry(kinds[k], area)]),
                        SelfEntry(20, <<>>) >>),
     root |-> [location |-> 20, length |-> SECTOR_LENGTH],
     path_table_l_loc |-> 18,
     path_table_size |-> 30,
     path_table |-> (<<>> :> 20)]

InitDetect ==
    \E kinds \in SeqsUpTo(RootKinds \cup {"CE"}, MaxRootEntries), area \in RootAreas :
        /\ image = DetectImage(kinds, area)
        /\ source = NewSource(FALSE, 1)
        /\ walk = NoWalk
        /\ facade = NoFacade
        /\ resolved = <<>>
        /\ call = NoCall

\* ISO(source)
DoConstruct ==
    /\ ~facade.active
    /\ \E r \in {ISOInit(source, image)} :
        /\ source' = [r.src EXCEPT !.fetched = <<>>]
        /\ facade' = r.facade
    /\ call' = [op |-> "ISO"]
    /\ UNCHANGED <<image, walk, resolved>>

\* iso.root.current_directory
DoCurrentDirectory ==
    /\ facade.active
    /\ \E r \in {CurrentDirectory(source, image, facade.root)} :
        /\ source' = [r.src EXCEPT !.fetched = <<>>]
        /\ call' = [op |-> "current_directory", outcome |-> r.outcome, record |-> r.record]
    /\ UNCHANGED <<image, walk, facade, resolved>>

\* record.susp_entries of the record current_directory returned
DoSuspEntries ==
    /\ call.op = "current_directory"
    /\ call.outcome = "ok"
    /\ \E r \in {WalkAll(NewWalk(call.record[1].embedded_susp_entries), source, image,
                           MaxNameSteps)} :
        /\ source' = [r.src EXCEPT !.fetched = <<>>]
        /\ call' = [op |-> "susp_entries",
                    entries |-> [i \in DOMAIN r.yielded |-> r.yielded[i].entry]]
    /\ UNCHANGED <<image, walk, facade, resolved>>

NextDetect == DoConstruct \/ DoCurrentDirectory \/ DoSuspEntries

SpecDetect == InitDetect /\ [][NextDetect]_vars

\* the entries of an area up to and with its first ST
RECURSIVE UpToST(_)
UpToST(entries) ==
    IF entries = <<>> THEN <<>>
    ELSE IF Head(entries).sig = "ST" THEN <<Head(entries)>>
    ELSE <<Head(entries)>> \o UpToST(Tail(entries))

\* the system-use area of the root's "." entry and its full chain: the
\* embedded area, then the continuation area a CE of it points to
RootArea == image.dirs[image.root.location][1].su
RootChain ==
    UpToST(RootArea)
    \o (IF \E i \in DOMAIN UpToST(RootArea) : UpToST(RootArea)[i].sig = "CE"
        THEN UpToST(image.areas[RootAreaStart]) ELSE <<>>)
RootHasSP == RootArea # <<>> /\ RootArea[1].sig = "SP"

\* C14: after ISO construction, rockridge is true exactly when the first
\* entry of the root "." system-use area is an SP and some ER of the full
\* chain names a Rock Ridge version; without the SP, SUSP is disabled and
\* rockridge is false
C14_RockRidgeIff ==
    facade.active =>
        /\ source.rockridge <=>
              (RootHasSP /\ \E i \in DOMAIN RootChain :
                               /\ RootChain[i].sig = "ER"
                               /\ <<RootChain[i].ext_id, RootChain[i].ext_ver>> \in EXT_VERSIONS)
        /\ ~RootHasSP => (source.susp_starting_index.kind = "False" /\ ~source.rockridge)

(***************************************************************************)
(* The name specification: a Rock Ridge image, one child entry whose SUSP  *)
(* entries are any short run of NM fragments and other entries, with a     *)
(* continuation area; the child is read, then its name                     *)
(***************************************************************************)
NM_CURRENT == 2
NM_PARENT == 4

\* rockridge.NM.__init__: the name an NM entry holds
NMName(flags, name_content) ==
    IF flags = NM_CURRENT THEN "."
    ELSE IF flags = NM_PARENT THEN ".."
    ELSE name_content

NM_of(flags, name_content) ==
    [sig |-> "NM", len |-> 5 + Len(name_content), flags |-> flags,
     name |-> NMName(flags, name_content)]

NameKinds == {"a", "b+", "c+", ".", "PX", "ST", "CE"}
NameEntry(kind, area) ==
    CASE kind = "a" -> NM_of(0, "a")
      [] kind = "b+" -> NM_of(NM_CONTINUE, "b")
      [] kind = "c+" -> NM_of(NM_CONTINUE, "c")
      [] kind = "." -> NM_of(NM_CURRENT, "")
      [] kind = "PX" -> PX_entry
      [] kind = "ST" -> ST_entry
      [] kind = "CE" -> CE_entry(23, 0, SumLen(area, Len(area)))

MaxNameEntries == 3
NameAreas == {<<NM_of(0, "z")>>, <<NM_of(NM_CONTINUE, "y")>>,
              <<NM_of(NM_CONTINUE, "y"), ST_entry, NM_of(0, "z")>>}

NameImage(kinds, area) ==
    [areas |-> (RootAreaStart :> area),
     dirs |-> (20 :> << SelfEntry(20, <<SP_entry, ER_entry>>),
                        SelfEntry(20, <<>>),
                        DirEntry(3, "RAW", 30, 10, FALSE,
                                 [k \in 1..Len(kinds) |-> NameEntry(kinds[k], area)]) >>),
     root |-> [location |-> 20, length |-> SECTOR_LENGTH],
     path_table_l_loc |-> 18,
     path_table_size |-> 30,
     path_table |-> (<<>> :> 20)]

InitName ==
    \E kinds \in SeqsUpTo(NameKinds, MaxNameEntries), area \in NameAreas :
    \E img \in {NameImage(kinds, area)} :
        /\ image = img
        /\ source = [ISOInit(NewSource(FALSE, 1), img).src EXCEPT !.fetched = <<>>]
        /\ walk = NoWalk
        /\ facade = NoFacade
        /\ resolved = <<>>
        /\ call = NoCall

\* list(root.children)[0]
DoFirstChild ==
    /\ \E r \in {Children(source, image, RootRecord(image))} :
        /\ source' = [r.src EXCEPT !.fetched = <<>>]
        /\ call' = [op |-> "child", outcome |-> r.outcome,
                    record |-> IF r.outcome = "ok" /\ r.children # <<>>
                               THEN Some(r.children[1]) ELSE None]
    /\ UNCHANGED <<image, walk, facade, resolved>>

\* record.name of the child read last
DoName ==
    /\ call.op \in {"child", "name"}
    /\ call.record # None
    /\ \E r \in {RecordName(call.record[1], source, image)} :
        /\ source' = [r.src EXCEPT !.fetched = <<>>]
        /\ call' = [op |-> "name", record |-> call.record, name |-> r.name]
    /\ UNCHANGED <<image, walk, facade, resolved>>

NextName == DoFirstChild \/ DoName

SpecName == InitName /\ [][NextName]_vars

\* the SUSP walk of an entry on the disc: its embedded entries up to the
\* first ST, then the continuation area its CE points to
DiscChain(su) ==
    UpToST(su)
    \o (IF \E i \in DOMAIN UpToST(su) : UpToST(su)[i].sig = "CE"
        THEN UpToST(image.areas[RootAreaStart]) ELSE <<>>)

RECURSIVE Concat(_)
Concat(nms) == IF nms = <<>> THEN "" ELSE Head(nms).name \o Concat(Tail(nms))

\* the first NM chain of a walk, if it is complete
FirstChain(chain) ==
    LET nms == SelectSeq(chain, LAMBDA x : x.sig = "NM")
        ends == {k \in DOMAIN nms : NoContinue(nms[k].flags)}
    IN IF ends = {} THEN None
       ELSE Some(SubSeq(nms, 1, CHOOSE k \in ends : \A j \in ends : k <= j))

NamedChild == image.dirs[image.root.location][3]

\* C16: record.name is the concatenation of the fragments of the first NM
\* chain of the walk, first NM to first NM without CONTINUE, and raw_name
\* when the walk holds no complete chain
C16_NameIsFirstChain ==
    call.op = "name" =>
        call.name = IF FirstChain(DiscChain(NamedChild.su)) = None
                    THEN NamedChild.raw_name
                    ELSE Concat(FirstChain(DiscChain(NamedChild.su))[1])

(***************************************************************************)
(* rockridge.py: SL.__init__, the path of a symbolic-link entry            *)
(***************************************************************************)
SL_CONTINUE == 1
SL_CURRENT == 2
SL_PARENT == 4
SL_ROOT == 8

\* self.flags & SL.CONTINUE == 0
SLNoContinue(flags) == ((flags \div SL_CONTINUE) % 2) = 0

\* the if/elif chain on comp_flags: what the component adds to the path, or
\* the failed susp_assert
ComponentText(comp) ==
    IF comp.flags = SL_CURRENT
    THEN IF Len(comp.content) = 0 THEN Some(".") ELSE None
    ELSE IF comp.flags = SL_PARENT
    THEN IF Len(comp.content) = 0 THEN Some("..") ELSE None
    ELSE IF comp.flags = SL_ROOT
    THEN IF Len(comp.content) = 0 THEN Some("") ELSE None
    ELSE IF comp.flags \in {0, SL_CONTINUE}
    THEN IF Len(comp.content) > 0 THEN Some(comp.content) ELSE None
    ELSE None

\* a separator rule that leaves the slash out after every last component
SLSeparator_any_final(comp_flags, at_target, flags) ==
    IF comp_flags = SL_CONTINUE THEN ""
    ELSE IF at_target /\ SLNoContinue(flags) THEN ""
    ELSE "/"

\* the second if/elif chain: what follows the component
SLSeparator(comp_flags, at_target, flags) ==
    IF comp_flags = SL_CONTINUE THEN ""
    ELSE IF comp_flags = 0 /\ at_target /\ SLNoContinue(flags) THEN ""
    ELSE "/"

\* "while source.cursor < target": c is the cursor, counted from the start
\* of the payload, comps the components not yet read
RECURSIVE SLLoop(_, _, _, _, _)
SLLoop(comps, c, target, flags, path) ==
    IF ~(c < target) THEN [outcome |-> "ok", flags |-> flags, path |-> path]
    ELSE LET comp == Head(comps)
             c2 == c + 2 + Len(comp.content)
         IN IF ~(c2 <= target) \/ ComponentText(comp) = None
            THEN [outcome |-> "SUSPError", flags |-> flags, path |-> path]
            ELSE SLLoop(Tail(comps), c2, target, flags,
                        path \o ComponentText(comp)[1]
                             \o SLSeparator(comp.flags, c2 = target, flags))

RECURSIVE ComponentBytes(_)
ComponentBytes(comps) ==
    IF comps = <<>> THEN 0 ELSE 2 + Len(Head(comps).content) + ComponentBytes(Tail(comps))

\* SL.__init__ on a payload of `length` bytes: the flags byte, then the
\* components
SLInit(length, flags, comps) ==
    IF ~(length >= 2) THEN [outcome |-> "SUSPError", flags |-> flags, path |-> ""]
    ELSE SLLoop(comps, 1, length, flags, "")

(***************************************************************************)
(* The link specification: SL entries of any short component sequence      *)
(***************************************************************************)
MaxComponents == 3
Components ==
    {[flags |-> 0, content |-> "x"], [flags |-> 0, content |-> "yz"],
     [flags |-> SL_CONTINUE, content |-> "w"],
     [flags |-> SL_CURRENT, content |-> ""], [flags |-> SL_PARENT, content |-> ""],
     [flags |-> SL_ROOT, content |-> ""],
     [flags |-> SL_PARENT, content |-> "p"], [flags |-> 0, content |-> ""]}

InitLink ==
    /\ source = NewSource(FALSE, 1)
    /\ image = NoImage
    /\ walk = NoWalk
    /\ facade = NoFacade
    /\ resolved = <<>>
    /\ call = NoCall

\* an SL entry is decoded
DoUnpackSL ==
    /\ call.op = "none"
    /\ \E flags \in {0, SL_CONTINUE}, comps \in SeqsUpTo(Components, MaxComponents) :
        call' = [op |-> "SL", comps |-> comps,
                 entry |-> SLInit(1 + ComponentBytes(comps), flags, comps)]
    /\ UNCHANGED <<source, image, walk, facade, resolved>>

NextLink == DoUnpackSL

SpecLink == InitLink /\ [][NextLink]_vars

\* what a component stands for in the path
Stands(comp) ==
    CASE comp.flags = SL_CURRENT -> "."
      [] comp.flags = SL_PARENT -> ".."
      [] comp.flags = SL_ROOT -> ""
      [] OTHER -> comp.content

\* the path with a slash after each component but those with CONTINUE and
\* the last one of the last SL
RECURSIVE PathAnyFinal(_, _, _)
PathAnyFinal(comps, k, flags) ==
    IF k > Len(comps) THEN ""
    ELSE Stands(comps[k])
         \o (IF comps[k].flags = SL_CONTINUE \/ (k = Len(comps) /\ SLNoContinue(flags))
             THEN "" ELSE "/")
         \o PathAnyFinal(comps, k + 1, flags)

\* the same, the last component of the last SL keeping its slash unless its
\* flags are 0
RECURSIVE PathPlainFinal(_, _, _)
PathPlainFinal(comps, k, flags) ==
    IF k > Len(comps) THEN ""
    ELSE Stands(comps[k])
         \o (IF comps[k].flags = SL_CONTINUE
                \/ (k = Len(comps) /\ SLNoContinue(flags) /\ comps[k].flags = 0)
             THEN "" ELSE "/")
         \o PathPlainFinal(comps, k + 1, flags)

Decoded_SL == call.op = "SL" /\ call.entry.outcome = "ok"

unpack_all(src) ==
    [data |-> SubSeq(src._buff.data, (cursor(src) \div SECTOR_LENGTH) + 1, Len(src._buff.data)),
     size |-> Max(src._buff.size - cursor(src), 0)]

\* Record.content on a record object whose _content attribute is _content
Content(src, rec, _content) ==
    IF rec.is_directory
    THEN [outcome |-> "AssertionError", content |-> None, _content |-> _content, src |-> src]
    ELSE IF _content = None
    THEN Bind(Seek(src, rec.location, rec.length, TRUE), LAMBDA s :
            [outcome |-> "ok", content |-> Some(unpack_all(s)),
             _content |-> Some(unpack_all(s)), src |-> s])
    ELSE [outcome |-> "ok", content |-> _content, _content |-> _content, src |-> src]

(***************************************************************************)
(* The content specification: an ISO object, paths resolved to record      *)
(* handles, contents read through the handles                              *)
(***************************************************************************)
ContentPaths == {<<"f">>, <<"g">>, <<"x">>}
MaxHandles == 2
MaxContentCalls == 5

\* resolved.handles: the records the caller holds, each with the path it was
\* resolved by and the object it is (a copy is an object of its own, a
\* record returned from a child cache is the cached object);
\* resolved.contents: the _content attribute of each object once set;
\* resolved.reads: per path, the bytes its first content read returned
InitContent ==
    \E mode \in {"plain", "rr"}, cc \in BOOLEAN, mf \in {1, MaxMinFetch} :
        \E init \in {ISOInit(NewSource(cc, mf), IsoImage(mode))} :
           /\ source = [init.src EXCEPT !.fetched = <<>>]
           /\ image = IsoImage(mode)
           /\ walk = NoWalk
           /\ facade = init.facade
           /\ resolved = [handles |-> <<>>, contents |-> <<>>, reads |-> <<>>]
           /\ call = [op |-> "new", n |-> 0]

\* h = iso.record(*path)
DoResolve ==
    /\ call.n < MaxContentCalls
    /\ Len(resolved.handles) < MaxHandles
    /\ \E path \in ContentPaths :
        \E r \in {ISORecord([source EXCEPT !.fetched = <<>>], image, facade, path)} :
           /\ source' = r.src
           /\ facade' = [r.iso EXCEPT !.objs = Persistent(@)]
           /\ resolved' =
                 IF r.outcome = "ok"
                 THEN [resolved EXCEPT !.handles =
                         Append(@, [path |-> path, rec |-> r.record[1],
                                    object |-> IF r.record[1].is_copy
                                               THEN <<"copy", call.n>>
                                               ELSE <<"cached", r.record[1].id>>])]
                 ELSE resolved
           /\ call' = [op |-> "record", n |-> call.n + 1, path |-> path, outcome |-> r.outcome]
    /\ UNCHANGED <<image, walk>>

\* h.content on a handle held
DoContent ==
    /\ call.n < MaxContentCalls
    /\ \E k \in DOMAIN resolved.handles :
        LET h == resolved.handles[k]
            _content == IF h.object \in DOMAIN resolved.contents
                        THEN Some(resolved.contents[h.object]) ELSE None
        IN \E r \in {Content([source EXCEPT !.fetched = <<>>], h.rec, _content)} :
           /\ source' = r.src
           /\ resolved' = [resolved EXCEPT
                             !.contents = (h.object :> r._content[1]) @@ @,
                             !.reads = IF h.path \in DOMAIN @ THEN @
                                       ELSE (h.path :> r.content[1]) @@ @]
           /\ call' = [op |-> "content", n |-> call.n + 1, path |-> h.path, handle |-> k,
                       outcome |-> r.outcome, content |-> r.content,
                       again |-> h.path \in DOMAIN resolved.reads,
                       first |-> IF h.path \in DOMAIN resolved.reads
                                 THEN Some(resolved.reads[h.path]) ELSE None]
    /\ UNCHANGED <<image, walk, facade>>

NextContent == DoResolve \/ DoContent

SpecContent == InitContent /\ [][NextContent]_vars

\* the first `length` bytes of the extent of a record
ExtentBytes(rec) ==
    [data |-> [i \in 1..n_sectors(rec.length) |-> Image(rec.location + i - 1)],
     size |-> rec.length]

\* C20: a content read of a file returns the first `length` bytes of its
\* extent, a second read by the same path (same handle or another handle of
\* that path) returns the bytes the first returned, and with cache_content
\* true the second read issues no backend fetch
C20_ContentStable ==
    call.op = "content" =>
        /\ call.outcome = "ok"
        /\ call.content[1] = ExtentBytes(resolved.handles[call.handle].rec)
        /\ call.again =>
              /\ call.content = call.first
              /\ source.cache_content => source.fetched = <<>>

(***************************************************************************)
(* source.py: Source.unpack_susp on any header bytes. The typed decoders   *)
(* and UnknownEntry are in susp.py; what they do enters as `decode`, the   *)
(* way the typed decode ends and the bytes it had consumed, and `unknown`, *)
(* the bytes the UnknownEntry constructor consumes                         *)
(***************************************************************************)
HEADER_LENGTH == 4

\* the typed decode ended cleanly having read the whole payload
CleanDecode(decode, length) ==
    decode.kind = "returned" /\ decode.consumed = length - HEADER_LENGTH

\* "if self.cursor != start_cursor + length": the cursor is put behind the
\* header and an UnknownEntry is constructed; c is the cursor before
Fallback(c, start_cursor, length, unknown) ==
    IF c # start_cursor + length THEN start_cursor + HEADER_LENGTH + unknown ELSE c

\* Source.unpack_susp(maxlen) where the header at the cursor declares
\* `length`: the outcome, the class of the entry returned, the cursor
unpack_susp_bytes(src, maxlen, length, decode, unknown) ==
    LET start_cursor == cursor(src)
        after_decode == IF decode.kind = "SUSPError" THEN start_cursor
                        ELSE start_cursor + HEADER_LENGTH + decode.consumed
        end == Fallback(after_decode, start_cursor, length, unknown)
        fell_back == after_decode # start_cursor + length
    IN IF maxlen < HEADER_LENGTH
       THEN [outcome |-> "None", cls |-> "", src |-> src]
       ELSE IF unpack_raw_fails(src, HEADER_LENGTH)
       THEN [outcome |-> "SourceError", cls |-> "", src |-> unpack_raw(src, HEADER_LENGTH)]
       ELSE IF maxlen < length
       THEN [outcome |-> "None", cls |-> "",
             src |-> rewind_raw(unpack_raw(src, HEADER_LENGTH), HEADER_LENGTH)]
       ELSE IF end # start_cursor + length
       THEN [outcome |-> "AssertionError", cls |-> "",
             src |-> [src EXCEPT !._buff.pos = end]]
       ELSE IF decode.kind = "SUSPError" /\ ~fell_back
       THEN [outcome |-> "UnboundLocalError", cls |-> "",
             src |-> [src EXCEPT !._buff.pos = end]]
       ELSE [outcome |-> "entry",
             cls |-> IF fell_back THEN "UnknownEntry" ELSE "typed",
             src |-> [src EXCEPT !._buff.pos = end]]

(***************************************************************************)
(* The entry specification: a window, a header declaring any length at the *)
(* cursor, unpack_susp called with any maxlen the window covers            *)
(***************************************************************************)
EntryWindow == 12
MaxDeclared == 8
EntryStarts == {0, 2}
MaxLens == {-1, 0, 3, 4, 5, 8, 10}

InitEntry ==
    \E start \in EntryStarts, length \in 0..MaxDeclared, maxlen \in MaxLens :
        /\ maxlen <= EntryWindow - start
        /\ source = [NewSource(FALSE, 1) EXCEPT
                       !._buff = [data |-> <<0>>, size |-> EntryWindow, pos |-> start],
                       !._len = EntryWindow]
        /\ image = [areas |-> <<>>, dirs |-> <<>>, length |-> length, maxlen |-> maxlen]
        /\ walk = NoWalk
        /\ facade = NoFacade
        /\ resolved = <<>>
        /\ call = NoCall

\* the payload bytes a decoder can consume when asked for n bytes with `left`
\* bytes behind the header: n of them, and for a negative n nothing or all
\* that is left
Consumes(n, left) == IF n >= 0 THEN {n} ELSE {0, left}

\* source.unpack_susp(maxlen)
DoUnpackSusp ==
    /\ call.op = "none"
    /\ \E kind \in {"returned", "SUSPError"} :
       \E consumed \in 0..(EntryWindow - cursor(source) - HEADER_LENGTH) :
       \E unknown \in Consumes(image.length - HEADER_LENGTH,
                               EntryWindow - cursor(source) - HEADER_LENGTH) :
       \E r \in {unpack_susp_bytes(source, image.maxlen, image.length,
                                   [kind |-> kind, consumed |-> consumed], unknown)} :
          /\ source' = r.src
          /\ call' = [op |-> "unpack_susp", start_cursor |-> cursor(source),
                      decode |-> [kind |-> kind, consumed |-> consumed],
                      outcome |-> r.outcome, cls |-> r.cls]
    /\ UNCHANGED <<image, walk, facade, resolved>>

NextEntry == DoUnpackSusp

SpecEntry == InitEntry /\ [][NextEntry]_vars

\* C21: unpack_susp returns none with the cursor unmoved when maxlen < 4 or
\* the declared length exceeds maxlen; otherwise, for every declared length,
\* it returns an entry, typed after a clean decode and UnknownEntry after a
\* failed or mismatching one, with the cursor `length` past the entry's start
C21_EntryOrNone ==
    call.op = "unpack_susp" =>
        IF image.maxlen < HEADER_LENGTH \/ image.length > image.maxlen
        THEN call.outcome = "None" /\ cursor(source) = call.start_cursor
        ELSE /\ call.outcome = "entry"
             /\ cursor(source) = call.start_cursor + image.length
             /\ call.cls = IF CleanDecode(call.decode, image.length)
                           THEN "typed" ELSE "UnknownEntry"

(***************************************************************************)
(* The save specification: save_cursor, then seeks, reads and rewinds,     *)
(* then restore_cursor. The tuple save_cursor returns holds the buffer     *)
(* object itself: until a seek installs a new buffer, reads and rewinds on *)
(* the source move the cursor of the held buffer too                       *)
(***************************************************************************)
MaxBetween == 3
SaveStarts == {0, 2}
SaveLengths == {SECTOR_LENGTH \div 2, SECTOR_LENGTH, SECTOR_LENGTH + 1}
SaveMoves == {SECTOR_LENGTH \div 2, SECTOR_LENGTH}

NotHeld == [held |-> FALSE]

\* the held tuple after an operation took the source from its state to
\* after: a held buffer that is the source's own follows it, a seek parts
\* the two
Held(h, after, is_seek) ==
    IF ~h.held \/ ~h.shared THEN h
    ELSE IF is_seek THEN [h EXCEPT !.shared = FALSE]
    ELSE [h EXCEPT !.cursor_def._buff = after._buff]

Between(h, op) == IF h.held THEN [h EXCEPT !.ops = Append(@, op)] ELSE h
MayAct == resolved.held => Len(resolved.ops) < MaxBetween

InitSave ==
    /\ \E start \in SaveStarts, length \in SaveLengths, pos \in {0} \cup SaveMoves :
        /\ pos <= length
        /\ source = [Seek(NewSource(FALSE, 1), start, length, FALSE)
                        EXCEPT !._buff.pos = pos, !.fetched = <<>>]
    /\ image = NoImage
    /\ walk = NoWalk
    /\ facade = NoFacade
    /\ resolved = NotHeld
    /\ call = [op |-> "seek"]

\* saved = source.save_cursor()
DoSaveCursor ==
    /\ ~resolved.held
    /\ call.op # "restore_cursor"
    /\ resolved' = [held |-> TRUE, shared |-> TRUE, cursor_def |-> save_cursor(source),
                    at_save |-> save_cursor(source), ops |-> <<>>]
    /\ call' = [op |-> "save_cursor"]
    /\ UNCHANGED <<source, image, walk, facade>>

DoSeekBetween ==
    /\ MayAct
    /\ \E start \in SaveStarts, length \in SaveLengths :
       \E s \in {Seek([source EXCEPT !.fetched = <<>>], start, length, FALSE)} :
          /\ source' = s
          /\ resolved' = Between(Held(resolved, s, TRUE), "seek")
    /\ call' = [op |-> "seek"]
    /\ UNCHANGED <<image, walk, facade>>

DoUnpackBetween ==
    /\ MayAct
    /\ \E l \in SaveMoves :
       \E s \in {unpack_raw(source, l)} :
          /\ source' = s
          /\ resolved' = Between(Held(resolved, s, FALSE), "unpack")
    /\ call' = [op |-> "unpack_raw"]
    /\ UNCHANGED <<image, walk, facade>>

DoRewindBetween ==
    /\ MayAct
    /\ \E l \in SaveMoves :
       \E s \in {IF rewind_raw_fails(source, l) THEN source ELSE rewind_raw(source, l)} :
          /\ source' = s
          /\ resolved' = Between(Held(resolved, s, FALSE), "rewind")
    /\ call' = [op |-> "rewind_raw"]
    /\ UNCHANGED <<image, walk, facade>>

\* source.restore_cursor(saved)
DoRestoreCursor ==
    /\ resolved.held
    /\ source' = restore_cursor(source, resolved.cursor_def)
    /\ call' = [op |-> "restore_cursor", at_save |-> resolved.at_save, ops |-> resolved.ops,
                _sectors |-> source._sectors]
    /\ resolved' = NotHeld
    /\ UNCHANGED <<image, walk, facade>>

NextSave ==
    DoSaveCursor \/ DoSeekBetween \/ DoUnpackBetween \/ DoRewindBetween \/ DoRestoreCursor

SpecSave == InitSave /\ [][NextSave]_vars

\* C23 as stated: after restore_cursor the window contents, the window length
\* and the cursor are those of the time of save_cursor, whatever seeks, reads
\* and rewinds came in between, and the sector cache is as the seeks left it
C23_AllRestored ==
    call.op = "restore_cursor" =>
        /\ source._buff.data = call.at_save._buff.data
        /\ source._buff.size = call.at_save._buff.size
        /\ source._len = call.at_save._len
        /\ cursor(source) = call.at_save._buff.pos
        /\ source._sectors = call._sectors

\* no read or rewind came before the first seek
SeekFirst(ops) == ops = <<>> \/ ops[1] = "seek"

\* C23: after restore_cursor the window contents and the window length are
\* those of the time of save_cursor and the sector cache is as the seeks left
\* it; the cursor is that of the time of save_cursor when the operations in
\* between began with a seek (or there were none)
C23_RestoredBehindSeek ==
    call.op = "restore_cursor" =>
        /\ source._buff.data = call.at_save._buff.data
        /\ source._buff.size = call.at_save._buff.size
        /\ source._len = call.at_save._len
        /\ source._sectors = call._sectors
        /\ SeekFirst(call.ops) => cursor(source) = call.at_save._buff.pos

\* a restore behind a seek to another window and a read in it
C23_Witness ==
    /\ call.op = "restore_cursor"
    /\ Len(call.ops) >= 2
    /\ call.ops[1] = "seek" /\ call.ops[2] = "unpack"
    /\ call.at_save._buff.pos > 0
    /\ call.at_save._len = SECTOR_LENGTH + 1

\* the entries the last call of the detection specification decoded
DecodedEntries ==
    IF call.op = "susp_entries" THEN call.entries
    ELSE IF call.op = "current_directory" /\ call.outcome = "ok"
    THEN call.record[1].embedded_susp_entries
    ELSE <<>>

\* the signature is implemented under one of the extensions the root declares
ImplementedUnderAny(sig) ==
    \E i \in DOMAIN source.susp_extensions :
        <<source.susp_extensions[i].ext_id, source.susp_extensions[i].ext_ver>>
            \in Implementers(sig)

\* C24: once the root's extensions are known, an entry whose signature is
\* implemented under any of them, whatever its index in susp_extensions, is
\* decoded as its typed entry, not as UnknownEntry
C24_TypedUnderAnyExtension ==
    facade.active =>
        \A i \in DOMAIN DecodedEntries :
            ImplementedUnderAny(DecodedEntries[i].raw.sig)
                => DecodedEntries[i].cls = DecodedEntries[i].raw.sig

(***************************************************************************)
(* record.py: Record.find_susp_entry over Record.susp_entries_unsafe, on   *)
(* the walk images (whose CE entries may point at an area already read)    *)
(***************************************************************************)
\* the classes searched for: CE occurs on the images, NM does not, so that a
\* search for NM runs the generator to its end
SearchClasses == {"CE", "NM"}

\* entries on an image of the searches
MaxTermEntries == 3

\* the walk images with at most MaxTermEntries entries, read by a
\* Source(min_fetch=1)
InitTerm ==
    /\ InitWalk
    /\ source.min_fetch = 1
    /\ Len(walk.embedded) + Len(image.areas[Area1Start]) + Len(image.areas[Area2Start])
           <= MaxTermEntries

\* the loop of find_susp_entry keeps the current entry only
CurrentOnly(w) ==
    [w EXCEPT !.yielded = IF Len(@) > 1 THEN <<@[Len(@)]>> ELSE @, !.visit = 0]

\* record.find_susp_entry(entryclass): the generator is created
DoFindSuspEntry ==
    /\ call.op = "none"
    /\ walk.active
    /\ \E c \in SearchClasses :
         call' = [op |-> "find_susp_entry", entryclass |-> c, outcome |-> "running"]
    /\ UNCHANGED <<source, image, walk, facade, resolved>>

\* `for entry in self.susp_entries_unsafe`: the generator runs one iteration
\* of its while loop; an entry of the class searched for is returned
DoIterate ==
    /\ call.op = "find_susp_entry"
    /\ call.outcome = "running"
    /\ LoopCond(walk)
    /\ \E r \in {WalkStep([walk EXCEPT !.yielded = <<>>],
                          [source EXCEPT !.fetched = <<>>], image)} :
         /\ source' = r.src
         /\ IF Len(r.w.yielded) = 1 /\ r.w.yielded[1].entry.cls = call.entryclass
            THEN /\ call' = [call EXCEPT !.outcome = "entry"]
                 /\ walk' = [CurrentOnly(r.w) EXCEPT !.active = FALSE]
            ELSE /\ call' = call
                 /\ walk' = CurrentOnly([r.w EXCEPT !.yielded =
                                IF Len(@) = 1 THEN @ ELSE walk.yielded])
    /\ UNCHANGED <<image, facade, resolved>>

\* the while loop of the generator ends: find_susp_entry returns None
DoStopIteration ==
    /\ call.op = "find_susp_entry"
    /\ call.outcome = "running"
    /\ ~LoopCond(walk)
    /\ call' = [call EXCEPT !.outcome = "None"]
    /\ walk' = [walk EXCEPT !.active = FALSE]
    /\ UNCHANGED <<source, image, facade, resolved>>

NextTerm == DoFindSuspEntry \/ DoIterate \/ DoStopIteration

\* the call runs to its end in one thread: a step that can be taken is taken
SpecTerm == InitTerm /\ [][NextTerm]_vars /\ WF_vars(NextTerm)

\* C25: on every image, also one whose CE entries point back at an area
\* already visited, a call of find_susp_entry returns after finitely many
\* steps of the SUSP walk
C25_WalkTerminates ==
    (call.op = "find_susp_entry")
        ~> (call.op = "find_susp_entry" /\ call.outcome # "running")

====
